---- MODULE Spec2Model ----
(***************************************************************************)
(* CourseSpider: the ingestion store (src/database.py), the course         *)
(* assembler (src/collector.py) and the collection jobs                    *)
(* (src/api_server.py), as state machines.                                 *)
(*                                                                         *)
(* The specifications of this module:                                       *)
(*   SpecStore    import workers on the one shared sqlite connection of    *)
(*                DatabaseManager; SpecStoreRead adds a request thread     *)
(*                that reads courses through the same connection;          *)
(*   SpecAssemble one call of EnhancedCourseCollector.process_playlist,    *)
(*                step by step, against a remote catalog whose calls may   *)
(*                fail;                                                    *)
(*   SpecJob      the collection jobs of api_server.py;                    *)
(*   SpecPoll     the same with a thread that polls the job's status;      *)
(*   SpecRun      a job whose process_playlist calls run step by step,     *)
(*                under fair scheduling of its worker thread;              *)
(*   SpecStaging  two jobs at once, sharing data/ and the store;           *)
(*   SpecRegistry two jobs, the answers of POST /api/collect and polls;    *)
(*   SpecCatalog  a request thread (delete, statistics) next to an import; *)
(*   SpecPaginate, SpecDuration, SpecLanguage: get_courses, parse_duration *)
(*                and detect_language on their own, over bounded inputs.   *)
(* Each specification leaves the variables of the others unchanged.        *)
(***************************************************************************)
EXTENDS Integers, Sequences, FiniteSets, TLC

VARIABLES
    \* ---- DatabaseManager (src/database.py) ----
    courses,        \* rows of table courses, as the shared connection sees them
    lessons,        \* rows of table lessons, as the shared connection sees them
    seqCourses,     \* AUTOINCREMENT counter of courses.id
    seqLessons,     \* AUTOINCREMENT counter of lessons.id
    committedCourses, \* rows of courses as of the last conn.commit()
    committedLessons, \* rows of lessons as of the last conn.commit()
    wpc,            \* per import worker: position in import_from_jsonl / insert_course
    wline,          \* per import worker: number of lines read from its file
    wcur,           \* per import worker: the record of the current line (index in Catalogue)
    wk,             \* per import worker: index of the next lesson to insert
    wcid,           \* per import worker: cursor.lastrowid of its course INSERT
    imported,       \* per import worker: local `imported`
    skipped,        \* per import worker: local `skipped`
    wres,           \* per import worker: outcome of each line read, in order (history)
    rpc,            \* reader: position in get_course_by_id
    rcourse,        \* reader: local `course` of get_course_by_id (<<>> before the row is read)
    fetched,        \* reader: what the last get_course_by_id returned (<<>> is None)
    \* ---- the remote catalog, as one process_playlist call finds it ----
    remoteCount,    \* number of items of the playlist on the remote
    remoteHidden,   \* the videos videos().list returns no detail for (private, deleted)
    idShape,        \* the candidate's shape: "nested" {id: {playlistId: X}} or "plain" {id: X}
    \* ---- EnhancedCourseCollector.process_playlist (src/collector.py) ----
    apc,            \* position in process_playlist
    playlist_details, \* "unset", "item" or "none"
    videos,         \* get_playlist_videos: the list accumulated so far
    page_token,     \* get_playlist_videos: 0 is None, k asks for page k
    playlist_videos, \* what get_playlist_videos returned
    batch_start,    \* the i of `for i in range(0, len(video_ids), 50)`
    video_details,  \* the concatenated results of get_video_details
    subscribers,    \* author subscribers taken from get_channel_details
    course,         \* what process_playlist returned: <<>> is None, <<c>> a course
    raisedBy,       \* "" or the call whose exception left process_playlist
    playlist_id,    \* local `playlist_id` of process_playlist ("" before it is set)
    page_requests,  \* the playlistItems().list requests made: pageToken and outcome (history)
    batch_calls,    \* the videos().list requests made: ids and outcome (history)
    \* ---- the collection jobs (src/api_server.py) ----
    collection_jobs, \* the registry: job id -> job record
    files,          \* data/*.jsonl: file name -> the youtube_ids of its lines
    jpc,            \* per job: position of its worker thread in run_collection
    courses_per_category, \* per job: argument of run_collection
    categories,     \* per job: argument of run_collection
    api_key,        \* per job: "unset", "present" or "absent" (os.getenv)
    collected_courses, \* per job: local list (the youtube_ids of the courses)
    kwi,            \* per job: number of custom keywords taken by the loop
    cati,           \* per job: number of categories taken by the loop
    ckwi,           \* per job: number of the category's keywords taken
    category_courses, \* per job: len(category_courses)
    playlists,      \* per job: the candidates of the last search still to process
    filename,       \* per job: the staging file of the job ("" before it is named)
    jimported,      \* per job: local `imported` of run_collection
    jskipped,       \* per job: local `skipped` of run_collection
    exc,            \* per job: "" or the exception run_collection's handler caught
    remote_calls,   \* per job: the kinds of remote catalog call its thread made (history)
    \* ---- a request thread of api_server.py: DELETE /api/courses/<id>, GET /api/stats ----
    qpc,            \* position of the request thread in its handler
    course_id,      \* delete_course: its argument (0 outside the handler)
    deleted,        \* the ids whose deletion was answered with success (history)
    answered404,    \* the ids whose deletion was answered with 404 (history)
    stats,          \* get_statistics: local `stats`, key by key (<<>> before the first)
    statistics,     \* what the last get_statistics returned (<<>> before the first)
    \* ---- a status poll: get_collection_status (src/api_server.py) ----
    polled,         \* the job record the last poll serialized (<<>> before the first)
    returned,       \* the job ids start_collection has answered with (history)
    \* ---- the functions checked on their own ----
    matching,       \* get_courses: the number of rows that match the filters
    response,       \* get_courses: the last response (<<>> before the first)
    token,          \* parse_duration: its argument, a sequence of characters
    minutes,        \* parse_duration: its result (-1 before the call)
    snippet,        \* detect_language: its argument
    language        \* detect_language: its result ("" before the call)

storeVars == <<courses, lessons, seqCourses, seqLessons, committedCourses,
               committedLessons, wpc, wline, wcur, wk, wcid, imported, skipped,
               wres, rpc, rcourse, fetched>>

asmVars == <<remoteCount, remoteHidden, idShape, apc, playlist_details, videos,
             page_token, playlist_videos, batch_start, video_details,
             subscribers, course, raisedBy, playlist_id, page_requests,
             batch_calls>>

jobVars == <<collection_jobs, files, jpc, courses_per_category, categories,
             api_key, collected_courses, kwi, cati, ckwi, category_courses,
             playlists, filename, jimported, jskipped, exc, remote_calls>>

\* The tables, which the jobs write through import_from_jsonl.
dbVars == <<courses, lessons, seqCourses, seqLessons, committedCourses,
            committedLessons>>

\* The import workers and the reader of the store specifications.
storeThreadVars == <<wpc, wline, wcur, wk, wcid, imported, skipped, wres, rpc,
                     rcourse, fetched>>

reqVars == <<qpc, course_id, deleted, answered404, stats, statistics>>

pollVars == <<polled, returned>>

funVars == <<matching, response, token, minutes, snippet, language>>

vars == <<storeVars, asmVars, jobVars, reqVars, pollVars, funVars>>

\* What the actions of one specification leave alone.
nonStoreVars == <<asmVars, jobVars, reqVars, pollVars, funVars>>
nonAsmVars == <<storeVars, jobVars, reqVars, pollVars, funVars>>
nonJobVars == <<storeThreadVars, asmVars, reqVars, pollVars, funVars>>
nonReqVars == <<storeThreadVars, asmVars, jobVars, pollVars, funVars>>
nonFunVars == <<storeVars, asmVars, jobVars, reqVars, pollVars>>

----------------------------------------------------------------------------
(* Bounds of the model *)

\* Longest JSONL file an import worker reads.
MaxFileLen == 2

\* Largest courses_per_category a collection request asks for.
MaxPerCategory == 1

\* Number of keywords of a category's list the model keeps.
MaxKeywords == 1

\* Longest result list of a search.
MaxResults == 2

\* Largest number of items a playlist of the remote has.
MaxVideos == 52

\* The threads that run import_from_jsonl on the shared connection
\* (each collection job's worker thread calls it, api_server.py:386).
Workers == {"w1", "w2"}

\* The job ids uuid.uuid4() hands out.
JobIds == {"j1", "j2"}

\* The names datetime.now().strftime("%Y-%m-%d_%H%M%S") gives staging files:
\* one per second of the clock.
FileNames == {"f1", "f2"}

----------------------------------------------------------------------------
(* Serialized course records: the lines of a JSONL file *)

Lesson(i, d) == [idx |-> i, duration_min |-> d, wellformed |-> TRUE]

\* A lesson object without its 'idx' key: lesson['idx'] raises KeyError.
BadLesson(d) == [idx |-> 0, duration_min |-> d, wellformed |-> FALSE]

\* category, language_name: course['category'], course.get('language_name', 'English')
\* parses:   json.loads(line) succeeds
\* complete: the object has the keys insert_course indexes (url, category, title, author)
Catalogue ==
    << [youtube_id |-> "a", category |-> "AI/ML", language_name |-> "English",
        parses |-> TRUE, complete |-> TRUE,
        lesson_count |-> 2, duration_min |-> 7,
        lessons |-> <<Lesson(1, 3), Lesson(2, 4)>>],
       [youtube_id |-> "a", category |-> "AI/ML", language_name |-> "Spanish",
        parses |-> TRUE, complete |-> TRUE,
        lesson_count |-> 1, duration_min |-> 5,
        lessons |-> <<Lesson(1, 5)>>],
       [youtube_id |-> "b", category |-> "Web Dev", language_name |-> "English",
        parses |-> TRUE, complete |-> TRUE,
        lesson_count |-> 1, duration_min |-> 9,
        lessons |-> <<Lesson(1, 9)>>],
       [youtube_id |-> "b", category |-> "Web Dev", language_name |-> "English",
        parses |-> TRUE, complete |-> TRUE,
        lesson_count |-> 2, duration_min |-> 6,
        lessons |-> <<Lesson(1, 2), BadLesson(4)>>],
       [youtube_id |-> "b", category |-> "Web Dev", language_name |-> "English",
        parses |-> TRUE, complete |-> FALSE,
        lesson_count |-> 0, duration_min |-> 0,
        lessons |-> <<>>],
       [youtube_id |-> "b", category |-> "Web Dev", language_name |-> "English",
        parses |-> FALSE, complete |-> FALSE,
        lesson_count |-> 0, duration_min |-> 0,
        lessons |-> <<>>] >>

RecordIds == 1..Len(Catalogue)

----------------------------------------------------------------------------
(* DatabaseManager: queries *)

\* SELECT id FROM courses WHERE youtube_id = ?   ... cursor.fetchone()
CourseExists(yid) == \E c \in courses : c.youtube_id = yid

\* The rows of a set of lesson rows in ORDER BY idx (ties by rowid).
RECURSIVE OrderByIdx(_)
OrderByIdx(S) ==
    IF S = {} THEN <<>>
    ELSE LET first == CHOOSE l \in S : \A m \in S :
                          \/ l.idx < m.idx
                          \/ (l.idx = m.idx /\ l.id <= m.id)
         IN <<first>> \o OrderByIdx(S \ {first})

\* SELECT * FROM lessons WHERE course_id = ? ORDER BY idx
LessonsOf(cid) == OrderByIdx({l \in lessons : l.course_id = cid})

----------------------------------------------------------------------------
(* DatabaseManager.import_from_jsonl and insert_course, one statement a step. *)
(* Every thread uses the one connection db.conn (check_same_thread=False):    *)
(* a statement of one thread sees the uncommitted rows of every other, and    *)
(* conn.commit() commits whatever any thread has written so far.              *)

Outcome(w, tag) == [youtube_id |-> Catalogue[wcur[w]].youtube_id, res |-> tag]

\* Mutant: no except clause around the record: the exception ends the import.
ImportExcept_Abort(w, tag) ==
    /\ wpc' = [wpc EXCEPT ![w] = "done"]
    /\ wres' = [wres EXCEPT ![w] = Append(@, Outcome(w, tag))]
    /\ UNCHANGED <<imported, skipped>>

\* except Exception as e: print(...); skipped += 1   -- and the loop goes on
ImportExcept(w, tag) ==
    /\ skipped' = [skipped EXCEPT ![w] = @ + 1]
    /\ wpc' = [wpc EXCEPT ![w] = "read"]
    /\ wres' = [wres EXCEPT ![w] = Append(@, Outcome(w, tag))]
    /\ UNCHANGED imported

\* insert_course returned False:  else: skipped += 1
ImportSkip(w) ==
    /\ skipped' = [skipped EXCEPT ![w] = @ + 1]
    /\ wpc' = [wpc EXCEPT ![w] = "read"]
    /\ wres' = [wres EXCEPT ![w] = Append(@, Outcome(w, "duplicate"))]
    /\ UNCHANGED imported

\* for line in f: course = json.loads(line)
ReadLine(w) ==
    /\ wpc[w] = "read"
    /\ UNCHANGED nonStoreVars
    /\ wline[w] < MaxFileLen
    /\ \E r \in RecordIds :
        /\ wcur' = [wcur EXCEPT ![w] = r]
        /\ wline' = [wline EXCEPT ![w] = @ + 1]
        /\ IF Catalogue[r].parses
           THEN /\ wpc' = [wpc EXCEPT ![w] = "select"]
                /\ UNCHANGED <<imported, skipped, wres>>
           ELSE \* json.loads raises JSONDecodeError: no id is read
                /\ skipped' = [skipped EXCEPT ![w] = @ + 1]
                /\ wpc' = [wpc EXCEPT ![w] = "read"]
                /\ wres' = [wres EXCEPT ![w] =
                              Append(@, [youtube_id |-> "", res |-> "malformed"])]
                /\ UNCHANGED imported
    /\ UNCHANGED <<courses, lessons, seqCourses, seqLessons, committedCourses,
                   committedLessons, wk, wcid, rpc, rcourse, fetched>>

\* the file is exhausted: return imported, skipped
EndOfFile(w) ==
    /\ wpc[w] = "read"
    /\ UNCHANGED nonStoreVars
    /\ wpc' = [wpc EXCEPT ![w] = "done"]
    /\ UNCHANGED <<courses, lessons, seqCourses, seqLessons, committedCourses,
                   committedLessons, wline, wcur, wk, wcid, imported, skipped,
                   wres, rpc, rcourse, fetched>>

\* Mutant: the duplicate branch as an upsert (the row is rewritten from the
\* new record and its lessons are dropped).
OnDuplicate_Upsert(w) ==
    LET old == {c \in courses : c.youtube_id = Catalogue[wcur[w]].youtube_id} IN
    /\ courses' = (courses \ old) \cup
                      {[id |-> c.id,
                        youtube_id |-> c.youtube_id,
                        lesson_count |-> Catalogue[wcur[w]].lesson_count,
                        duration_min |-> Catalogue[wcur[w]].duration_min,
                        src |-> wcur[w]] : c \in old}
    /\ lessons' = {l \in lessons : \A c \in old : l.course_id /= c.id}
    /\ UNCHANGED <<seqCourses, seqLessons>>

\* What the duplicate branch of insert_course does to the tables: nothing.
OnDuplicate(w) ==
    UNCHANGED <<courses, lessons, seqCourses, seqLessons>>

\* cursor.execute('SELECT id FROM courses WHERE youtube_id = ?')
\* if cursor.fetchone(): return False
SelectExisting(w) ==
    /\ wpc[w] = "select"
    /\ UNCHANGED nonStoreVars
    /\ IF CourseExists(Catalogue[wcur[w]].youtube_id)
       THEN /\ OnDuplicate(w)
            /\ ImportSkip(w)
       ELSE /\ wpc' = [wpc EXCEPT ![w] = "insert_course"]
            /\ UNCHANGED <<courses, lessons, seqCourses, seqLessons,
                           imported, skipped, wres>>
    /\ UNCHANGED <<committedCourses, committedLessons, wline, wcur, wk, wcid,
                   rpc, rcourse, fetched>>

\* Mutant: the youtube_id column without its UNIQUE constraint.
UniqueViolation_NoConstraint(yid) == FALSE

\* youtube_id TEXT UNIQUE NOT NULL: the INSERT raises sqlite3.IntegrityError
UniqueViolation(yid) == \E c \in courses : c.youtube_id = yid

\* The row INSERT INTO courses writes for the course `rec`.
CourseRowOf(id, rec, src) ==
    [id |-> id,
     youtube_id |-> rec.youtube_id,
     category |-> rec.category,
     language_name |-> rec.language_name,
     lesson_count |-> rec.lesson_count,
     duration_min |-> rec.duration_min,
     src |-> src]       \* the record the row was inserted from (history)

CourseRow(id, r) == CourseRowOf(id, Catalogue[r], r)

\* cursor.execute('INSERT INTO courses ...'); course_id = cursor.lastrowid
InsertCourseRow(w) ==
    /\ wpc[w] = "insert_course"
    /\ UNCHANGED nonStoreVars
    /\ IF ~Catalogue[wcur[w]].complete
       THEN \* course['url'] etc. raises KeyError while the parameters are built
            /\ ImportExcept(w, "keyerror")
            /\ UNCHANGED <<courses, seqCourses, wcid, wk>>
       ELSE IF UniqueViolation(Catalogue[wcur[w]].youtube_id)
       THEN /\ ImportExcept(w, "integrity")
            /\ UNCHANGED <<courses, seqCourses, wcid, wk>>
       ELSE /\ courses' = courses \cup {CourseRow(seqCourses + 1, wcur[w])}
            /\ seqCourses' = seqCourses + 1
            /\ wcid' = [wcid EXCEPT ![w] = seqCourses + 1]
            /\ wk' = [wk EXCEPT ![w] = 1]
            \* if 'lessons' in course and course['lessons']:
            /\ wpc' = [wpc EXCEPT ![w] =
                          IF Catalogue[wcur[w]].lessons = <<>>
                          THEN "commit" ELSE "insert_lesson"]
            /\ UNCHANGED <<imported, skipped, wres>>
    /\ UNCHANGED <<lessons, seqLessons, committedCourses, committedLessons,
                   wline, wcur, rpc, rcourse, fetched>>

\* for lesson in course['lessons']: cursor.execute('INSERT INTO lessons ...')
InsertLessonRow(w) ==
    /\ wpc[w] = "insert_lesson"
    /\ UNCHANGED nonStoreVars
    /\ LET l == Catalogue[wcur[w]].lessons[wk[w]] IN
       IF ~l.wellformed
       THEN \* lesson['idx'] raises KeyError; nothing is rolled back
            /\ ImportExcept(w, "lesson_error")
            /\ UNCHANGED <<lessons, seqLessons, wk>>
       ELSE /\ lessons' = lessons \cup
                  {[id |-> seqLessons + 1, course_id |-> wcid[w],
                    idx |-> l.idx, duration_min |-> l.duration_min]}
            /\ seqLessons' = seqLessons + 1
            /\ wk' = [wk EXCEPT ![w] = @ + 1]
            /\ wpc' = [wpc EXCEPT ![w] =
                          IF wk[w] = Len(Catalogue[wcur[w]].lessons)
                          THEN "commit" ELSE "insert_lesson"]
            /\ UNCHANGED <<imported, skipped, wres>>
    /\ UNCHANGED <<courses, seqCourses, committedCourses, committedLessons,
                   wline, wcur, wcid, rpc, rcourse, fetched>>

\* self.conn.commit(); return True   ... imported += 1
Commit(w) ==
    /\ wpc[w] = "commit"
    /\ UNCHANGED nonStoreVars
    /\ committedCourses' = courses
    /\ committedLessons' = lessons
    /\ imported' = [imported EXCEPT ![w] = @ + 1]
    /\ wpc' = [wpc EXCEPT ![w] = "read"]
    /\ wres' = [wres EXCEPT ![w] = Append(@, Outcome(w, "imported"))]
    /\ UNCHANGED <<courses, lessons, seqCourses, seqLessons, wline, wcur, wk,
                   wcid, skipped, rpc, rcourse, fetched>>

----------------------------------------------------------------------------
(* DatabaseManager.get_course_by_id, called by the API's request threads *)

\* cursor.execute('SELECT * FROM courses WHERE id = ?'); if not row: return None
FetchCourse ==
    /\ rpc = "idle"
    /\ UNCHANGED nonStoreVars
    /\ \E cid \in 1..(seqCourses + 1) :
        LET rows == {c \in courses : c.id = cid} IN
        IF rows = {}
        THEN /\ fetched' = <<>>
             /\ UNCHANGED <<rpc, rcourse>>
        ELSE /\ rcourse' = <<CHOOSE c \in rows : TRUE>>
             /\ rpc' = "lessons"
             /\ UNCHANGED fetched
    /\ UNCHANGED <<courses, lessons, seqCourses, seqLessons, committedCourses,
                   committedLessons, wpc, wline, wcur, wk, wcid, imported,
                   skipped, wres>>

\* cursor.execute('SELECT * FROM lessons WHERE course_id = ? ORDER BY idx')
\* course['lessons'] = [...]; return course
FetchLessons ==
    /\ rpc = "lessons"
    /\ UNCHANGED nonStoreVars
    /\ fetched' = <<[course |-> rcourse[1], lessons |-> LessonsOf(rcourse[1].id)]>>
    /\ rcourse' = <<>>
    /\ rpc' = "idle"
    /\ UNCHANGED <<courses, lessons, seqCourses, seqLessons, committedCourses,
                   committedLessons, wpc, wline, wcur, wk, wcid, imported,
                   skipped, wres>>

----------------------------------------------------------------------------
(* The store specification *)

\* No process_playlist call is under way.
AsmIdle ==
    /\ remoteCount = 0
    /\ remoteHidden = {}
    /\ idShape = "nested"
    /\ apc = "idle"
    /\ playlist_details = "unset"
    /\ videos = <<>>
    /\ page_token = 0
    /\ playlist_videos = <<>>
    /\ batch_start = 0
    /\ video_details = <<>>
    /\ subscribers = 0
    /\ course = <<>>
    /\ raisedBy = ""
    /\ playlist_id = ""
    /\ page_requests = <<>>
    /\ batch_calls = <<>>

StoreInit ==
    /\ courses = {}
    /\ lessons = {}
    /\ seqCourses = 0
    /\ seqLessons = 0
    /\ committedCourses = {}
    /\ committedLessons = {}
    /\ wpc = [w \in Workers |-> "read"]
    /\ wline = [w \in Workers |-> 0]
    /\ wcur = [w \in Workers |-> 1]
    /\ wk = [w \in Workers |-> 0]
    /\ wcid = [w \in Workers |-> 0]
    /\ imported = [w \in Workers |-> 0]
    /\ skipped = [w \in Workers |-> 0]
    /\ wres = [w \in Workers |-> <<>>]
    /\ rpc = "idle"
    /\ rcourse = <<>>
    /\ fetched = <<>>

\* The import workers alone.
StoreNext ==
    \/ \E w \in Workers : ReadLine(w)
    \/ \E w \in Workers : EndOfFile(w)
    \/ \E w \in Workers : SelectExisting(w)
    \/ \E w \in Workers : InsertCourseRow(w)
    \/ \E w \in Workers : InsertLessonRow(w)
    \/ \E w \in Workers : Commit(w)

\* No collection job was started.
JobIdle ==
    /\ collection_jobs = <<>>
    /\ files = [f \in FileNames |-> <<>>]
    /\ jpc = [j \in JobIds |-> "idle"]
    /\ courses_per_category = [j \in JobIds |-> 0]
    /\ categories = [j \in JobIds |-> <<>>]
    /\ api_key = [j \in JobIds |-> "unset"]
    /\ collected_courses = [j \in JobIds |-> <<>>]
    /\ kwi = [j \in JobIds |-> 0]
    /\ cati = [j \in JobIds |-> 0]
    /\ ckwi = [j \in JobIds |-> 0]
    /\ category_courses = [j \in JobIds |-> 0]
    /\ playlists = [j \in JobIds |-> <<>>]
    /\ filename = [j \in JobIds |-> ""]
    /\ jimported = [j \in JobIds |-> 0]
    /\ jskipped = [j \in JobIds |-> 0]
    /\ exc = [j \in JobIds |-> ""]
    /\ remote_calls = [j \in JobIds |-> {}]

\* No request is being served.
ReqIdle ==
    /\ qpc = "idle"
    /\ course_id = 0
    /\ deleted = {}
    /\ answered404 = {}
    /\ stats = <<>>
    /\ statistics = <<>>

\* No poll has been made and no function has been called.
FunIdle ==
    /\ polled = <<>>
    /\ returned = {}
    /\ matching = 0
    /\ response = <<>>
    /\ token = <<>>
    /\ minutes = -1
    /\ snippet = <<>>
    /\ language = ""

InitStore == StoreInit /\ AsmIdle /\ JobIdle /\ ReqIdle /\ FunIdle

SpecStore == InitStore /\ [][StoreNext]_vars

\* The import workers and a request thread that fetches courses by id.
StoreReadNext ==
    \/ \E w \in Workers : ReadLine(w)
    \/ \E w \in Workers : EndOfFile(w)
    \/ \E w \in Workers : SelectExisting(w)
    \/ \E w \in Workers : InsertCourseRow(w)
    \/ \E w \in Workers : InsertLessonRow(w)
    \/ \E w \in Workers : Commit(w)
    \/ FetchCourse
    \/ FetchLessons

InitStoreRead == StoreInit /\ AsmIdle /\ JobIdle /\ ReqIdle /\ FunIdle

SpecStoreRead == InitStoreRead /\ [][StoreReadNext]_vars

----------------------------------------------------------------------------
(* Properties of the store *)

LastRes(w) == wres[w][Len(wres[w])]

RowsWithId(yid) == {c \in courses : c.youtube_id = yid}

RECURSIVE SumDuration(_)
SumDuration(S) ==
    IF S = {} THEN 0
    ELSE LET l == CHOOSE x \in S : TRUE
         IN l.duration_min + SumDuration(S \ {l})

Idxs(ls) == [i \in 1..Len(ls) |-> ls[i].idx]

\* C1: in every state, visible or committed, at most one Course row carries a
\* given youtube_id, however the inserts of concurrent workers interleave.
C1_UniqueYoutubeId ==
    /\ \A c1, c2 \in courses : c1.youtube_id = c2.youtube_id => c1 = c2
    /\ \A c1, c2 \in committedCourses : c1.youtube_id = c2.youtube_id => c1 = c2

\* C1 witness: two workers passed the SELECT for the same id; one created the
\* row, the INSERT of the other was rejected, and one row exists.
C1_Witness ==
    \E w \in Workers :
        /\ wres[w] /= <<>>
        /\ LastRes(w).res = "integrity"
        /\ Cardinality(RowsWithId(LastRes(w).youtube_id)) = 1

\* C2: an insert whose SELECT finds the id returns False (the record is counted
\* as skipped) and changes no Course row and no Lesson row; a worker that
\* offers an id again after it imported it sees it skipped as a duplicate, no
\* id is imported twice, and the id has exactly one row.
C2_DuplicateStep(w) ==
    (/\ wpc[w] = "select"
     /\ wpc'[w] /= "select"
     /\ CourseExists(Catalogue[wcur[w]].youtube_id))
    => /\ courses' = courses
       /\ lessons' = lessons
       /\ committedCourses' = committedCourses
       /\ committedLessons' = committedLessons
       /\ skipped'[w] = skipped[w] + 1
       /\ imported'[w] = imported[w]
       /\ wres'[w] = Append(wres[w], Outcome(w, "duplicate"))

C2_OfferedTwice ==
    /\ \A w \in Workers : \A i, j \in 1..Len(wres[w]) :
          (/\ i < j
           /\ wres[w][i].res = "imported"
           /\ wres[w][j].youtube_id = wres[w][i].youtube_id)
          => /\ wres[w][j].res = "duplicate"
             /\ Cardinality(RowsWithId(wres[w][i].youtube_id)) = 1
    /\ \A w1, w2 \in Workers : \A i \in 1..Len(wres[w1]) : \A j \in 1..Len(wres[w2]) :
          (/\ wres[w1][i].res = "imported"
           /\ wres[w2][j].res = "imported"
           /\ wres[w1][i].youtube_id = wres[w2][j].youtube_id)
          => (w1 = w2 /\ i = j)

C2_DuplicateIsSkipped ==
    /\ [][\A w \in Workers : C2_DuplicateStep(w)]_vars
    /\ []C2_OfferedTwice

\* C2 witness: one worker offered id "a" twice: imported, then skipped.
C2_Witness ==
    \E w \in Workers :
        /\ Len(wres[w]) = 2
        /\ wres[w][1] = [youtube_id |-> "a", res |-> "imported"]
        /\ wres[w][2] = [youtube_id |-> "a", res |-> "duplicate"]
        /\ Cardinality(RowsWithId("a")) = 1

\* C3: whatever get_course_by_id returns, a course it returns carries every
\* lesson of the record the course was inserted from.
C3_FetchedCourseIsWhole ==
    fetched /= <<>> =>
        Idxs(fetched[1].lessons) = Idxs(Catalogue[fetched[1].course.src].lessons)

\* C4: import_from_jsonl never aborts: at the head of its loop, and when it
\* returns, every line read has been counted, imported + skipped = lines read,
\* and the outcomes are those of the lines in order.
C4_BatchNeverAborts ==
    \A w \in Workers :
        /\ wpc[w] \in {"read", "done"} =>
              /\ imported[w] + skipped[w] = wline[w]
              /\ Len(wres[w]) = wline[w]
        /\ wpc[w] \notin {"read", "done"} =>
              /\ imported[w] + skipped[w] = wline[w] - 1
              /\ Len(wres[w]) = wline[w] - 1
        /\ imported[w] = Cardinality({i \in 1..Len(wres[w]) : wres[w][i].res = "imported"})

\* C4 witness: an import returned after a line that raised was followed by a
\* line that was imported.
C4_Witness ==
    \E w \in Workers :
        /\ wpc[w] = "done"
        /\ Len(wres[w]) = 2
        /\ wres[w][1].res \in {"malformed", "keyerror", "lesson_error", "integrity"}
        /\ wres[w][2].res = "imported"

\* C7 (store): every committed Course row's lesson_count is the number of its
\* committed Lesson rows, and its duration_min is the sum of their durations.
C7_StoreCountsMatch ==
    \A c \in committedCourses :
        LET ls == {l \in committedLessons : l.course_id = c.id} IN
        /\ c.lesson_count = Cardinality(ls)
        /\ c.duration_min = SumDuration(ls)

----------------------------------------------------------------------------
(* EnhancedCourseCollector.parse_duration, on a duration token as the      *)
(* sequence of its characters.                                             *)

Digits == <<"0", "1", "2", "3", "4", "5", "6", "7", "8", "9">>

IsDigit(c) == \E i \in 1..Len(Digits) : Digits[i] = c

DigitValue(c) == (CHOOSE i \in 1..Len(Digits) : Digits[i] = c) - 1

\* The first position at or after pos that holds no digit: where \d+ stops.
RECURSIVE DigitsEnd(_, _)
DigitsEnd(s, pos) ==
    IF pos <= Len(s) /\ IsDigit(s[pos]) THEN DigitsEnd(s, pos + 1) ELSE pos

\* int() of the digits s[from] .. s[to - 1].
RECURSIVE IntOf(_, _, _)
IntOf(s, from, to) ==
    IF from >= to THEN 0
    ELSE IntOf(s, from, to - 1) * 10 + DigitValue(s[to - 1])

\* One optional group (?:(\d+)X)? tried at pos; int(match.group(n) or 0).
OptionalGroup(s, pos, letter) ==
    LET e == DigitsEnd(s, pos) IN
    IF e > pos /\ e <= Len(s) /\ s[e] = letter
    THEN [value |-> IntOf(s, pos, e), next |-> e + 1]
    ELSE [value |-> 0, next |-> pos]

\* Mutant: leftover seconds are dropped instead of rounded up.
parse_duration_Floor(duration) ==
    IF Len(duration) < 2 \/ duration[1] /= "P" \/ duration[2] /= "T"
    THEN 0
    ELSE LET h == OptionalGroup(duration, 3, "H")
             m == OptionalGroup(duration, h.next, "M")
         IN h.value * 60 + m.value

\* re.match(r'PT(?:(\d+)H)?(?:(\d+)M)?(?:(\d+)S)?', duration): a match of a
\* prefix; hours * 60 + minutes + (1 if seconds > 0 else 0), 0 without a match.
parse_duration(duration) ==
    IF Len(duration) < 2 \/ duration[1] /= "P" \/ duration[2] /= "T"
    THEN 0
    ELSE LET h == OptionalGroup(duration, 3, "H")
             m == OptionalGroup(duration, h.next, "M")
             sec == OptionalGroup(duration, m.next, "S")
         IN h.value * 60 + m.value + (IF sec.value > 0 THEN 1 ELSE 0)

----------------------------------------------------------------------------
(* The remote catalog *)

\* playlistItems().list(maxResults=50): items per page.
PageSize == 50

\* `for i in range(0, len(video_ids), 50)`: ids per videos().list call.
BatchSize == 50

\* `if len(playlist_videos) < 5`: the admission rule.
MinVideos == 5

\* The outcomes of request.execute(): a response, googleapiclient's HttpError,
\* or any other exception (a transport error of httplib2 or of the socket).
CallOutcomes == {"ok", "http_error", "error"}

\* The videos of the playlist are 1 .. remoteCount, in playlist order.
Range(a, b) == [i \in 1..(b - a + 1) |-> a + i - 1]

Min(a, b) == IF a < b THEN a ELSE b

\* The items of page k and its nextPageToken (0: none).
PageItems(k) == Range((k - 1) * PageSize + 1, Min(k * PageSize, remoteCount))

\* Mutant: a remote whose first page never names a next one.
NextPageToken_None(k) == 0

NextPageToken(k) == IF k * PageSize < remoteCount THEN k + 1 ELSE 0

\* contentDetails.duration of the videos, as the remote reports it.
DurationTokens ==
    << <<"P", "T", "4", "5", "S">>,
       <<"P", "T", "1", "0", "M">>,
       <<"P", "T", "1", "H", "2", "M", "3", "S">>,
       <<"P", "0", "D">>,
       <<"P", "T", "1", "0", "M", "1", "S">> >>

VideoDuration(v) == DurationTokens[(v % Len(DurationTokens)) + 1]

\* The sets of videos without details the model tries.
HiddenChoices ==
    { {}, {1}, {2, 4}, {BatchSize}, {BatchSize + 1}, {3, BatchSize + 2} }

\* statistics.subscriberCount of the playlist's channel.
ChannelSubscribers == 1200

----------------------------------------------------------------------------
(* EnhancedCourseCollector.process_playlist, one remote call a step *)

Raise(call) ==
    /\ apc' = "raised"
    /\ raisedBy' = call
    /\ UNCHANGED course

\* return None
ReturnNone ==
    /\ apc' = "returned"
    /\ course' = <<>>
    /\ UNCHANGED raisedBy

\* The id X of the candidate, under either shape.
CandidateId == "PL"

\* playlist_id = playlist_item.get('id', {}).get('playlistId') or playlist_item.get('id')
ResolveId ==
    /\ apc = "start"
    /\ UNCHANGED nonAsmVars
    /\ IF idShape = "plain"
       THEN \* 'X'.get('playlistId'): a str has no attribute get
            /\ Raise("resolve_id")
            /\ UNCHANGED playlist_id
       ELSE /\ playlist_id' = CandidateId
            /\ apc' = "details"
            /\ UNCHANGED <<course, raisedBy>>
    /\ UNCHANGED <<remoteCount, remoteHidden, idShape, playlist_details, videos,
                   page_token, playlist_videos, batch_start, video_details,
                   subscribers, page_requests, batch_calls>>

\* playlist_details = self.get_playlist_details(playlist_id)
\* if not playlist_details: return None
GetPlaylistDetails ==
    /\ apc = "details"
    /\ UNCHANGED nonAsmVars
    /\ \E out \in CallOutcomes \cup {"empty"} :
        CASE out = "ok" ->
                /\ playlist_details' = "item"
                /\ apc' = "videos"
                /\ UNCHANGED <<course, raisedBy>>
          [] out \in {"empty", "http_error"} ->
                /\ playlist_details' = "none"
                /\ ReturnNone
          [] OTHER ->
                /\ Raise("get_playlist_details")
                /\ UNCHANGED playlist_details
    /\ UNCHANGED <<remoteCount, remoteHidden, idShape, videos, page_token,
                   playlist_videos, batch_start, video_details, subscribers,
                   playlist_id, page_requests, batch_calls>>

\* Mutant: the admission rule with <= for <.
TooFew_OffByOne(n) == n <= MinVideos

\* if len(playlist_videos) < 5: return None
TooFew(n) == n < MinVideos

\* get_playlist_videos returned pv: the admission rule, then the batch loop
\* (which a playlist that passed the rule enters: it has ids).
AfterPlaylistVideos(pv) ==
    /\ playlist_videos' = pv
    /\ IF TooFew(Len(pv))
       THEN ReturnNone
       ELSE /\ apc' = "batches"
            /\ UNCHANGED <<course, raisedBy>>

\* One turn of the `while True` of get_playlist_videos: a page request.
FetchPage ==
    /\ apc = "videos"
    /\ UNCHANGED nonAsmVars
    /\ \E out \in CallOutcomes :
        /\ page_requests' = Append(page_requests, [pageToken |-> page_token, out |-> out])
        /\ CASE out = "ok" ->
                LET k == IF page_token = 0 THEN 1 ELSE page_token
                    got == videos \o PageItems(k)
                IN /\ videos' = got
                   /\ page_token' = NextPageToken(k)
                   /\ IF NextPageToken(k) = 0
                      THEN AfterPlaylistVideos(got)     \* break; return videos
                      ELSE UNCHANGED <<apc, playlist_videos, course, raisedBy>>
          [] out = "http_error" ->
                \* except HttpError: return []
                /\ AfterPlaylistVideos(<<>>)
                /\ UNCHANGED <<videos, page_token>>
          [] OTHER ->
                /\ Raise("get_playlist_videos")
                /\ UNCHANGED <<videos, page_token, playlist_videos>>
    /\ UNCHANGED <<remoteCount, remoteHidden, idShape, playlist_details,
                   batch_start, video_details, subscribers, playlist_id,
                   batch_calls>>

\* video_ids[i:i+50]
Batch(ids, i) == SubSeq(ids, i + 1, Min(i + BatchSize, Len(ids)))

\* response.get('items', []) of videos().list for a batch of ids
DetailsOf(batch) ==
    LET Visible(v) == v \notin remoteHidden IN SelectSeq(batch, Visible)

\* One turn of the batch loop: details = self.get_video_details(batch);
\* video_details.extend(details)
FetchBatch ==
    /\ apc = "batches"
    /\ UNCHANGED nonAsmVars
    /\ \E out \in CallOutcomes :
        /\ batch_calls' = Append(batch_calls,
                [ids |-> Batch(playlist_videos, batch_start), out |-> out])
        /\ CASE out = "ok" ->
                /\ video_details' =
                      video_details \o DetailsOf(Batch(playlist_videos, batch_start))
                /\ batch_start' = batch_start + BatchSize
                /\ apc' = IF batch_start + BatchSize >= Len(playlist_videos)
                          THEN "channel" ELSE "batches"
                /\ UNCHANGED <<course, raisedBy>>
          [] out = "http_error" ->
                \* except HttpError: return []
                /\ batch_start' = batch_start + BatchSize
                /\ apc' = IF batch_start + BatchSize >= Len(playlist_videos)
                          THEN "channel" ELSE "batches"
                /\ UNCHANGED <<video_details, course, raisedBy>>
          [] OTHER ->
                /\ Raise("get_video_details")
                /\ UNCHANGED <<video_details, batch_start>>
    /\ UNCHANGED <<remoteCount, remoteHidden, idShape, playlist_details, videos,
                   page_token, playlist_videos, subscribers, playlist_id,
                   page_requests>>

\* Mutant: a lesson numbered by its video's place in the playlist.
LessonIdx_PlaylistPlace(i, video) == video

\* 'idx': i + 1 for i, video in enumerate(video_details); here i counts from 1.
LessonIdx(i, video) == i

\* for i, video in enumerate(video_details): ... lessons.append({...})
BuildLessons(details) ==
    [i \in 1..Len(details) |->
        [idx |-> LessonIdx(i, details[i]),
         video_id |-> details[i],
         duration_min |-> parse_duration(VideoDuration(details[i]))]]

\* total_duration += duration, over the lessons in order
RECURSIVE TotalDuration(_)
TotalDuration(ls) ==
    IF ls = <<>> THEN 0
    ELSE TotalDuration(SubSeq(ls, 1, Len(ls) - 1)) + ls[Len(ls)].duration_min

\* course = {...}
BuildCourse(details, subs) ==
    LET ls == BuildLessons(details) IN
    [youtube_id |-> playlist_id,
     duration_min |-> TotalDuration(ls),
     lesson_count |-> Len(ls),
     lessons |-> ls,
     subscribers |-> subs]

\* channel_details = self.get_channel_details(channel_id), then the rest of
\* process_playlist, which calls nothing remote: return course
GetChannelDetails ==
    /\ apc = "channel"
    /\ UNCHANGED nonAsmVars
    /\ \E out \in CallOutcomes \cup {"empty"} :
        CASE out = "ok" ->
                /\ subscribers' = ChannelSubscribers
                /\ course' = <<BuildCourse(video_details, ChannelSubscribers)>>
                /\ apc' = "returned"
                /\ UNCHANGED raisedBy
          [] out \in {"empty", "http_error"} ->
                \* ... if channel_details else 0
                /\ subscribers' = 0
                /\ course' = <<BuildCourse(video_details, 0)>>
                /\ apc' = "returned"
                /\ UNCHANGED raisedBy
          [] OTHER ->
                /\ Raise("get_channel_details")
                /\ UNCHANGED subscribers
    /\ UNCHANGED <<remoteCount, remoteHidden, idShape, playlist_details, videos,
                   page_token, playlist_videos, batch_start, video_details,
                   playlist_id, page_requests, batch_calls>>

----------------------------------------------------------------------------
(* The assembler specification: one call on any candidate and any remote *)

AsmInit ==
    /\ remoteCount \in 0..MaxVideos
    /\ remoteHidden \in {H \cap (1..remoteCount) : H \in HiddenChoices}
    /\ idShape \in {"nested", "plain"}
    /\ apc = "start"
    /\ playlist_details = "unset"
    /\ videos = <<>>
    /\ page_token = 0
    /\ playlist_videos = <<>>
    /\ batch_start = 0
    /\ video_details = <<>>
    /\ subscribers = 0
    /\ course = <<>>
    /\ raisedBy = ""
    /\ playlist_id = ""
    /\ page_requests = <<>>
    /\ batch_calls = <<>>

AsmNext ==
    \/ ResolveId
    \/ GetPlaylistDetails
    \/ FetchPage
    \/ FetchBatch
    \/ GetChannelDetails

InitAssemble == AsmInit /\ StoreInit /\ JobIdle /\ ReqIdle /\ FunIdle

SpecAssemble == InitAssemble /\ [][AsmNext]_vars

----------------------------------------------------------------------------
(* Properties of the assembler *)

Accepted == apc = "returned" /\ course /= <<>>

\* C5: when the item detail is present and process_playlist returns, it
\* returns None exactly when get_playlist_videos returned fewer than 5
\* sub-items: 4 is rejected, 5 is accepted.
C5_AdmissionRule ==
    (apc = "returned" /\ playlist_details = "item") =>
        /\ (course = <<>>) <=> (Len(playlist_videos) < 5)
        /\ Len(playlist_videos) = 4 => course = <<>>
        /\ Len(playlist_videos) = 5 => course /= <<>>

\* C5 witness: a candidate with exactly 5 sub-items was accepted.
C5_Witness == Accepted /\ Len(playlist_videos) = 5

\* C6: every course process_playlist returns has at least 5 lessons.
C6_AcceptedHasFiveLessons ==
    Accepted =>
        /\ course[1].lesson_count >= 5
        /\ Len(course[1].lessons) >= 5

\* C7 (assembler): the course process_playlist returns has lesson_count equal
\* to the number of its lessons and duration_min equal to their sum.
C7_AssembledCountsMatch ==
    Accepted =>
        /\ course[1].lesson_count = Len(course[1].lessons)
        /\ course[1].duration_min = TotalDuration(course[1].lessons)

\* C8: the lessons of a returned course carry the indices 1 .. lesson_count,
\* each once, in the order the details were returned (source order) across
\* the batches, whatever batch was short or failed.
C8_LessonIndicesGapless ==
    Accepted =>
        LET ls == course[1].lessons IN
        /\ Len(ls) = course[1].lesson_count
        /\ Len(ls) = Len(video_details)
        /\ \A i \in 1..Len(ls) :
              /\ ls[i].idx = i
              /\ ls[i].video_id = video_details[i]
        /\ \A i, j \in 1..Len(ls) : i < j => ls[i].video_id < ls[j].video_id

\* C8 witness: a returned course whose lessons come from both batches of a
\* playlist of more than 50 videos, with fewer details than ids.
C8_Witness ==
    /\ Accepted
    /\ Len(playlist_videos) > BatchSize
    /\ Len(video_details) < Len(playlist_videos)
    /\ \E i, j \in 1..Len(course[1].lessons) :
          /\ course[1].lessons[i].video_id <= BatchSize
          /\ course[1].lessons[j].video_id > BatchSize

----------------------------------------------------------------------------
(* The collection jobs: start_collection and run_collection of             *)
(* src/api_server.py. A step is one statement on the job record, or one    *)
(* remote call with the local statements that follow it.                   *)

\* collector.search_keywords: the first two of its categories, each list cut
\* to its first MaxKeywords entries.
SearchKeywordsFull ==
    [c \in {"AI/ML", "Web Dev"} |->
        IF c = "AI/ML"
        THEN <<"machine learning course", "deep learning tutorial",
               "artificial intelligence course", "neural networks tutorial",
               "tensorflow course", "pytorch tutorial", "AI course",
               "computer vision course", "NLP tutorial", "reinforcement learning">>
        ELSE <<"web development course", "javascript tutorial", "react course",
               "vue tutorial", "angular course", "node.js tutorial",
               "full stack development", "web programming", "HTML CSS tutorial",
               "responsive design course", "frontend development",
               "backend development">>]

search_keywords ==
    [c \in DOMAIN SearchKeywordsFull |->
        SubSeq(SearchKeywordsFull[c], 1, Min(MaxKeywords, Len(SearchKeywordsFull[c])))]

\* The requests the model posts to /api/collect.
CategoryChoices == {<<>>, <<"Other">>, <<"AI/ML">>, <<"Other", "AI/ML">>}

KeywordChoices == {<<>>, <<"k1">>, <<"k1", "k2">>}

\* response.get('items', []) of a search: the first n playlists of a ranking.
Ranking == <<"a", "b", "c">>

ResultLists == {SubSeq(Ranking, 1, n) : n \in 0..Min(MaxResults, Len(Ranking))}

\* What process_playlist does with a candidate: returns a course, returns
\* None, or raises (the three ways SpecAssemble ends).
ProcessOutcomes == {"course", "none", "raise"}

\* Mutant: the slice that keeps every candidate.
Take_All(list, n) == list

\* playlists[:courses_per_category]: the first n candidates, and for a
\* negative n all but the last -n.
Take(list, n) ==
    IF n >= 0
    THEN SubSeq(list, 1, Min(n, Len(list)))
    ELSE SubSeq(list, 1, IF Len(list) + n > 0 THEN Len(list) + n ELSE 0)

\* data.get('courses_per_category', 5): whatever integer the request holds;
\* the model posts -1 and 0 .. MaxPerCategory.
PerCategoryChoices == {0 - 1} \cup (0..MaxPerCategory)

\* Mutant: the log keeps its latest line only.
AppendLog_KeepLast(jobs, j, line, arg) ==
    [jobs EXCEPT ![j].logs = <<[line |-> line, arg |-> arg]>>]

\* collection_jobs[job_id]['logs'].append(...)
AppendLog(jobs, j, line, arg) ==
    [jobs EXCEPT ![j].logs = Append(@, [line |-> line, arg |-> arg])]

\* Mutant: the estimate that leaves the custom keywords out.
EstimatedTotal_CategoriesOnly(cats, kws, cpc) == Len(cats) * cpc

\* 'total': (len(categories) + len(custom_keywords)) * courses_per_category
EstimatedTotal(cats, kws, cpc) == (Len(cats) + Len(kws)) * cpc

\* POST /api/collect: collection_jobs[job_id] = {...}; thread.start()
StartCollection(j, cpc, cats, kws) ==
    /\ jpc[j] = "idle"
    /\ j \notin DOMAIN collection_jobs
    /\ collection_jobs' =
          [x \in DOMAIN collection_jobs \cup {j} |->
              IF x = j
              THEN [status |-> "running",
                    collected |-> 0,
                    total |-> EstimatedTotal(cats, kws, cpc),
                    logs |-> <<>>,
                    error |-> "None",
                    custom_keywords |-> kws]
              ELSE collection_jobs[x]]
    /\ jpc' = [jpc EXCEPT ![j] = "check_key"]
    /\ courses_per_category' = [courses_per_category EXCEPT ![j] = cpc]
    /\ categories' = [categories EXCEPT ![j] = cats]
    /\ UNCHANGED <<files, api_key, collected_courses, kwi, cati, ckwi,
                   category_courses, playlists, filename, jimported, jskipped, exc>>
    /\ UNCHANGED <<remote_calls, dbVars, nonJobVars>>

\* Mutant: the client is built before the key is looked at.
CheckKey_BuildFirst(j) ==
    /\ jpc[j] = "check_key"
    /\ remote_calls' = [remote_calls EXCEPT ![j] = @ \cup {"build"}]
    /\ \E present \in BOOLEAN :
        IF ~present
        THEN /\ api_key' = [api_key EXCEPT ![j] = "absent"]
             /\ collection_jobs' = [collection_jobs EXCEPT ![j].status = "failed"]
             /\ jpc' = [jpc EXCEPT ![j] = "key_error"]
        ELSE /\ api_key' = [api_key EXCEPT ![j] = "present"]
             /\ UNCHANGED collection_jobs
             /\ jpc' = [jpc EXCEPT ![j] = "cat_next"]
    /\ UNCHANGED <<files, courses_per_category, categories, collected_courses,
                   kwi, cati, ckwi, category_courses, playlists, filename,
                   jimported, jskipped, exc>>
    /\ UNCHANGED <<dbVars, nonJobVars>>

\* api_key = os.getenv('YOUTUBE_API_KEY'); if not api_key: status = 'failed'
\* else: collector = EnhancedCourseCollector(api_key) (which calls nothing
\* remote: build() reads the discovery document shipped with the library);
\* if custom_keywords: logs.append('Processing ... custom keywords...')
CheckKey(j) ==
    /\ jpc[j] = "check_key"
    /\ \E present \in BOOLEAN :
        IF ~present
        THEN /\ api_key' = [api_key EXCEPT ![j] = "absent"]
             /\ collection_jobs' = [collection_jobs EXCEPT ![j].status = "failed"]
             /\ jpc' = [jpc EXCEPT ![j] = "key_error"]
             /\ UNCHANGED remote_calls
        ELSE /\ api_key' = [api_key EXCEPT ![j] = "present"]
             /\ remote_calls' = [remote_calls EXCEPT ![j] = @ \cup {"build"}]
             /\ IF collection_jobs[j].custom_keywords /= <<>>
                THEN /\ collection_jobs' =
                           AppendLog(collection_jobs, j, "Processing custom keywords", "")
                     /\ jpc' = [jpc EXCEPT ![j] = "kw_next"]
                ELSE /\ UNCHANGED collection_jobs
                     /\ jpc' = [jpc EXCEPT ![j] = "cat_next"]
    /\ UNCHANGED <<files, courses_per_category, categories, collected_courses,
                   kwi, cati, ckwi, category_courses, playlists, filename,
                   jimported, jskipped, exc>>
    /\ UNCHANGED <<dbVars, nonJobVars>>

\* Mutant: the key check without its `return`: the run goes on to the
\* categories after recording the failure.
KeyError_NoReturn(j) ==
    /\ jpc[j] = "key_error"
    /\ collection_jobs' =
          [collection_jobs EXCEPT ![j].error = "YouTube API key not found"]
    /\ jpc' = [jpc EXCEPT ![j] = "cat_next"]
    /\ UNCHANGED <<files, courses_per_category, categories, api_key,
                   collected_courses, kwi, cati, ckwi, category_courses,
                   playlists, filename, jimported, jskipped, exc>>
    /\ UNCHANGED <<remote_calls, dbVars, nonJobVars>>

\* collection_jobs[job_id]['error'] = 'YouTube API key not found'; return
KeyError(j) ==
    /\ jpc[j] = "key_error"
    /\ collection_jobs' =
          [collection_jobs EXCEPT ![j].error = "YouTube API key not found"]
    /\ jpc' = [jpc EXCEPT ![j] = "done"]
    /\ UNCHANGED <<files, courses_per_category, categories, api_key,
                   collected_courses, kwi, cati, ckwi, category_courses,
                   playlists, filename, jimported, jskipped, exc>>
    /\ UNCHANGED <<remote_calls, dbVars, nonJobVars>>

\* search_playlists catches HttpError alone: any other exception of
\* request.execute() leaves it.
SearchRaises(out) == out = "error"

\* for keyword in custom_keywords: logs.append('Searching: ...');
\* playlists = collector.search_playlists(keyword, 10, language_filter)
KwNext(j) ==
    /\ jpc[j] = "kw_next"
    /\ IF kwi[j] = Len(collection_jobs[j].custom_keywords)
       THEN \* the loop is over
            /\ jpc' = [jpc EXCEPT ![j] = "cat_next"]
            /\ UNCHANGED <<collection_jobs, kwi, playlists, exc, remote_calls>>
       ELSE /\ kwi' = [kwi EXCEPT ![j] = @ + 1]
            /\ remote_calls' = [remote_calls EXCEPT ![j] = @ \cup {"search"}]
            /\ collection_jobs' =
                  AppendLog(collection_jobs, j, "Searching",
                            collection_jobs[j].custom_keywords[kwi[j] + 1])
            /\ \E out \in CallOutcomes : \E items \in ResultLists :
                 IF SearchRaises(out)
                 THEN /\ exc' = [exc EXCEPT ![j] = "search_playlists"]
                      /\ jpc' = [jpc EXCEPT ![j] = "except"]
                      /\ UNCHANGED playlists
                 ELSE \* a response, or [] after HttpError; then playlists[:n]
                      /\ playlists' = [playlists EXCEPT ![j] =
                            IF out = "ok"
                            THEN Take(items, courses_per_category[j]) ELSE <<>>]
                      /\ jpc' = [jpc EXCEPT ![j] = "kw_process"]
                      /\ UNCHANGED exc
    /\ UNCHANGED <<files, courses_per_category, categories, api_key,
                   collected_courses, cati, ckwi, category_courses, filename,
                   jimported, jskipped>>
    /\ UNCHANGED <<dbVars, nonJobVars>>

\* Mutant: a candidate's exception marks the job failed.
AfterProcess_RaiseFails(j, cand, out) ==
    CASE out = "course" ->
            AppendLog([collection_jobs EXCEPT
                          ![j].collected = Len(collected_courses[j]) + 1],
                      j, "Collected", cand)
      [] out = "raise" ->
            AppendLog([collection_jobs EXCEPT ![j].status = "failed"],
                      j, "Error", cand)
      [] OTHER -> collection_jobs

\* try: course = collector.process_playlist(playlist, ...); if course: ...
\* except Exception as e: logs.append('Error: ...')
\* The job record after the candidate `cand` was processed with outcome `out`.
AfterProcess(j, cand, out) ==
    CASE out = "course" ->
            AppendLog([collection_jobs EXCEPT
                          ![j].collected = Len(collected_courses[j]) + 1],
                      j, "Collected", cand)
      [] out = "raise" -> AppendLog(collection_jobs, j, "Error", cand)
      [] OTHER -> collection_jobs

\* Mutant: the candidate loop that takes a rejected candidate again.
KwProcessed_Retry(j, out) ==
    /\ remote_calls' = [remote_calls EXCEPT ![j] = @ \cup {"lookup"}]
    /\ collection_jobs' = AfterProcess(j, Head(playlists[j]), out)
    /\ collected_courses' = [collected_courses EXCEPT ![j] =
          IF out = "course" THEN Append(@, Head(playlists[j])) ELSE @]
    /\ playlists' = [playlists EXCEPT ![j] = IF out = "none" THEN @ ELSE Tail(@)]
    /\ UNCHANGED jpc

\* One turn of the custom keywords' candidate loop, process_playlist having
\* ended with `out`.
KwProcessed(j, out) ==
    /\ remote_calls' = [remote_calls EXCEPT ![j] = @ \cup {"lookup"}]
    /\ collection_jobs' = AfterProcess(j, Head(playlists[j]), out)
    /\ collected_courses' = [collected_courses EXCEPT ![j] =
          IF out = "course" THEN Append(@, Head(playlists[j])) ELSE @]
    /\ playlists' = [playlists EXCEPT ![j] = Tail(@)]
    /\ UNCHANGED jpc

\* for playlist in playlists[:courses_per_category]: (custom keywords)
KwProcess(j) ==
    /\ jpc[j] = "kw_process"
    /\ IF playlists[j] = <<>>
       THEN /\ jpc' = [jpc EXCEPT ![j] = "kw_next"]
            /\ UNCHANGED <<collection_jobs, collected_courses, playlists,
                           remote_calls>>
       ELSE \E out \in ProcessOutcomes : KwProcessed(j, out)
    /\ UNCHANGED <<files, courses_per_category, categories, api_key, kwi, cati,
                   ckwi, category_courses, filename, jimported, jskipped, exc>>
    /\ UNCHANGED <<dbVars, nonJobVars>>

\* for category in categories: if category not in collector.search_keywords:
\* continue; logs.append('Collecting ...'); category_courses = []
CatNext(j) ==
    /\ jpc[j] = "cat_next"
    /\ IF cati[j] = Len(categories[j])
       THEN \* the loop is over
            /\ jpc' = [jpc EXCEPT ![j] = "save"]
            /\ UNCHANGED <<collection_jobs, cati, ckwi, category_courses>>
       ELSE /\ cati' = [cati EXCEPT ![j] = @ + 1]
            /\ IF categories[j][cati[j] + 1] \notin DOMAIN search_keywords
               THEN UNCHANGED <<collection_jobs, jpc, ckwi, category_courses>>
               ELSE /\ collection_jobs' =
                          AppendLog(collection_jobs, j, "Collecting",
                                    categories[j][cati[j] + 1])
                    /\ ckwi' = [ckwi EXCEPT ![j] = 0]
                    /\ category_courses' = [category_courses EXCEPT ![j] = 0]
                    /\ jpc' = [jpc EXCEPT ![j] = "cat_kw"]
    /\ UNCHANGED <<files, courses_per_category, categories, api_key,
                   collected_courses, kwi, playlists, filename, jimported,
                   jskipped, exc>>
    /\ UNCHANGED <<remote_calls, dbVars, nonJobVars>>

\* for keyword in keywords: if len(category_courses) >= courses_per_category:
\* break; playlists = collector.search_playlists(keyword, 10, language_filter)
CatKw(j) ==
    /\ jpc[j] = "cat_kw"
    /\ IF \/ ckwi[j] = Len(search_keywords[categories[j][cati[j]]])
          \/ category_courses[j] >= courses_per_category[j]
       THEN /\ jpc' = [jpc EXCEPT ![j] = "cat_next"]
            /\ UNCHANGED <<ckwi, playlists, exc, remote_calls>>
       ELSE /\ ckwi' = [ckwi EXCEPT ![j] = @ + 1]
            /\ remote_calls' = [remote_calls EXCEPT ![j] = @ \cup {"search"}]
            /\ \E out \in CallOutcomes : \E items \in ResultLists :
                 IF SearchRaises(out)
                 THEN /\ exc' = [exc EXCEPT ![j] = "search_playlists"]
                      /\ jpc' = [jpc EXCEPT ![j] = "except"]
                      /\ UNCHANGED playlists
                 ELSE /\ playlists' = [playlists EXCEPT ![j] =
                            IF out = "ok" THEN items ELSE <<>>]
                      /\ jpc' = [jpc EXCEPT ![j] = "cat_process"]
                      /\ UNCHANGED exc
    /\ UNCHANGED <<collection_jobs, files, courses_per_category, categories,
                   api_key, collected_courses, kwi, cati, category_courses,
                   filename, jimported, jskipped>>
    /\ UNCHANGED <<dbVars, nonJobVars>>

\* One turn of a category's candidate loop, process_playlist having ended
\* with `out`.
CatProcessed(j, out) ==
    /\ KwProcessed(j, out)
    /\ category_courses' = [category_courses EXCEPT ![j] =
          IF out = "course" THEN @ + 1 ELSE @]

\* for playlist in playlists: if len(category_courses) >= courses_per_category:
\* break; try: course = collector.process_playlist(playlist, category) ...
CatProcess(j) ==
    /\ jpc[j] = "cat_process"
    /\ IF playlists[j] = <<>> \/ category_courses[j] >= courses_per_category[j]
       THEN /\ jpc' = [jpc EXCEPT ![j] = "cat_kw"]
            /\ playlists' = [playlists EXCEPT ![j] = <<>>]
            /\ UNCHANGED <<collection_jobs, collected_courses, category_courses,
                           remote_calls>>
       ELSE \E out \in ProcessOutcomes : CatProcessed(j, out)
    /\ UNCHANGED <<files, courses_per_category, categories, api_key, kwi, cati,
                   ckwi, filename, jimported, jskipped, exc>>
    /\ UNCHANGED <<dbVars, nonJobVars>>

\* The course of candidate yid as process_playlist returned it, save_courses
\* wrote it and json.loads reads it back: every key present, two lessons.
SerializedCourse(yid) ==
    [youtube_id |-> yid, category |-> "Custom", language_name |-> "English",
     parses |-> TRUE, complete |-> TRUE,
     lesson_count |-> 2, duration_min |-> 7,
     lessons |-> <<Lesson(1, 3), Lesson(2, 4)>>]

\* insert_course run from its SELECT to its return with no other thread
\* between its statements, on the tables `db`.
InsertCourseAlone(db, rec) ==
    IF \E c \in db.courses : c.youtube_id = rec.youtube_id
    THEN [db EXCEPT !.skipped = @ + 1]
    ELSE [courses |-> db.courses \cup {CourseRowOf(db.seqCourses + 1, rec, 0)},
          lessons |-> db.lessons \cup
              {[id |-> db.seqLessons + i, course_id |-> db.seqCourses + 1,
                idx |-> rec.lessons[i].idx,
                duration_min |-> rec.lessons[i].duration_min] :
               i \in 1..Len(rec.lessons)},
          seqCourses |-> db.seqCourses + 1,
          seqLessons |-> db.seqLessons + Len(rec.lessons),
          imported |-> db.imported + 1,
          skipped |-> db.skipped]

\* import_from_jsonl over the lines of a staging file, in order.
RECURSIVE ImportAlone(_, _)
ImportAlone(lines, db) ==
    IF lines = <<>> THEN db
    ELSE ImportAlone(Tail(lines), InsertCourseAlone(db, SerializedCourse(Head(lines))))

\* if collected_courses: filename = f'courses_{now}.jsonl';
\*     collector.save_courses(collected_courses, filename); logs.append('Importing ...')
\* else: collection_jobs[job_id]['status'] = 'completed'
Save(j) ==
    /\ jpc[j] = "save"
    /\ IF collected_courses[j] = <<>>
       THEN /\ collection_jobs' = [collection_jobs EXCEPT ![j].status = "completed"]
            /\ jpc' = [jpc EXCEPT ![j] = "no_courses_log"]
            /\ UNCHANGED <<files, filename>>
       ELSE \E f \in FileNames :
            /\ filename' = [filename EXCEPT ![j] = f]
            \* open(filepath, 'w'): the file is created or overwritten
            /\ files' = [files EXCEPT ![f] = collected_courses[j]]
            /\ collection_jobs' = AppendLog(collection_jobs, j, "Importing to database", "")
            /\ jpc' = [jpc EXCEPT ![j] = "import"]
    /\ UNCHANGED <<courses_per_category, categories, api_key, collected_courses,
                   kwi, cati, ckwi, category_courses, playlists, jimported,
                   jskipped, exc>>
    /\ UNCHANGED <<remote_calls, dbVars, nonJobVars>>

\* Mutant: a worker that drops its record when it ends with no course.
NoCoursesLog_Forget(j) ==
    /\ jpc[j] = "no_courses_log"
    /\ collection_jobs' =
          [x \in DOMAIN collection_jobs \ {j} |-> collection_jobs[x]]
    /\ jpc' = [jpc EXCEPT ![j] = "done"]
    /\ UNCHANGED <<files, courses_per_category, categories, api_key,
                   collected_courses, kwi, cati, ckwi, category_courses,
                   playlists, filename, jimported, jskipped, exc>>
    /\ UNCHANGED <<remote_calls, dbVars, nonJobVars>>

\* collection_jobs[job_id]['logs'].append('No courses collected')
NoCoursesLog(j) ==
    /\ jpc[j] = "no_courses_log"
    /\ collection_jobs' = AppendLog(collection_jobs, j, "No courses collected", "")
    /\ jpc' = [jpc EXCEPT ![j] = "done"]
    /\ UNCHANGED <<files, courses_per_category, categories, api_key,
                   collected_courses, kwi, cati, ckwi, category_courses,
                   playlists, filename, jimported, jskipped, exc>>
    /\ UNCHANGED <<remote_calls, dbVars, nonJobVars>>

\* imported, skipped = db.import_from_jsonl(filepath); logs.append('Imported ...')
\* (a staging file holds at least one line; <<>> is a file that does not exist)
Import(j) ==
    /\ jpc[j] = "import"
    /\ IF files[filename[j]] = <<>>
       THEN \* open(filepath, 'r') raises FileNotFoundError
            /\ exc' = [exc EXCEPT ![j] = "FileNotFoundError"]
            /\ jpc' = [jpc EXCEPT ![j] = "except"]
            /\ UNCHANGED <<collection_jobs, jimported, jskipped, dbVars>>
       ELSE LET db == ImportAlone(files[filename[j]],
                                  [courses |-> courses, lessons |-> lessons,
                                   seqCourses |-> seqCourses,
                                   seqLessons |-> seqLessons,
                                   imported |-> 0, skipped |-> 0])
            IN /\ courses' = db.courses
               /\ lessons' = db.lessons
               /\ seqCourses' = db.seqCourses
               /\ seqLessons' = db.seqLessons
               /\ committedCourses' =
                     IF db.imported > 0 THEN db.courses ELSE committedCourses
               /\ committedLessons' =
                     IF db.imported > 0 THEN db.lessons ELSE committedLessons
               /\ jimported' = [jimported EXCEPT ![j] = db.imported]
               /\ jskipped' = [jskipped EXCEPT ![j] = db.skipped]
               /\ collection_jobs' = AppendLog(collection_jobs, j, "Imported", "")
               /\ jpc' = [jpc EXCEPT ![j] = "cleanup"]
               /\ UNCHANGED exc
    /\ UNCHANGED <<files, courses_per_category, categories, api_key,
                   collected_courses, kwi, cati, ckwi, category_courses,
                   playlists, filename>>
    /\ UNCHANGED <<remote_calls, nonJobVars>>

\* try: os.remove(filepath); logs.append('Cleaned up ...')
\* except Exception as e: logs.append('Could not delete ...')
Cleanup(j) ==
    /\ jpc[j] = "cleanup"
    /\ IF files[filename[j]] = <<>>
       THEN /\ collection_jobs' = AppendLog(collection_jobs, j, "Could not delete", "")
            /\ UNCHANGED files
       ELSE /\ files' = [files EXCEPT ![filename[j]] = <<>>]
            /\ collection_jobs' = AppendLog(collection_jobs, j, "Cleaned up", "")
    /\ jpc' = [jpc EXCEPT ![j] = "complete"]
    /\ UNCHANGED <<courses_per_category, categories, api_key, collected_courses,
                   kwi, cati, ckwi, category_courses, playlists, filename,
                   jimported, jskipped, exc>>
    /\ UNCHANGED <<remote_calls, dbVars, nonJobVars>>

\* collection_jobs[job_id]['status'] = 'completed'     (line 399)
Complete(j) ==
    /\ jpc[j] = "complete"
    /\ collection_jobs' = [collection_jobs EXCEPT ![j].status = "completed"]
    /\ jpc' = [jpc EXCEPT ![j] = "complete_log"]
    /\ UNCHANGED <<files, courses_per_category, categories, api_key,
                   collected_courses, kwi, cati, ckwi, category_courses,
                   playlists, filename, jimported, jskipped, exc>>
    /\ UNCHANGED <<remote_calls, dbVars, nonJobVars>>

\* collection_jobs[job_id]['logs'].append('Completed! ...')
CompleteLog(j) ==
    /\ jpc[j] = "complete_log"
    /\ collection_jobs' = AppendLog(collection_jobs, j, "Completed", "")
    /\ jpc' = [jpc EXCEPT ![j] = "done"]
    /\ UNCHANGED <<files, courses_per_category, categories, api_key,
                   collected_courses, kwi, cati, ckwi, category_courses,
                   playlists, filename, jimported, jskipped, exc>>
    /\ UNCHANGED <<remote_calls, dbVars, nonJobVars>>

\* except Exception as e: collection_jobs[job_id]['status'] = 'failed'
Except(j) ==
    /\ jpc[j] = "except"
    /\ collection_jobs' = [collection_jobs EXCEPT ![j].status = "failed"]
    /\ jpc' = [jpc EXCEPT ![j] = "except_error"]
    /\ UNCHANGED <<files, courses_per_category, categories, api_key,
                   collected_courses, kwi, cati, ckwi, category_courses,
                   playlists, filename, jimported, jskipped, exc>>
    /\ UNCHANGED <<remote_calls, dbVars, nonJobVars>>

\* collection_jobs[job_id]['error'] = str(e)
ExceptError(j) ==
    /\ jpc[j] = "except_error"
    /\ collection_jobs' = [collection_jobs EXCEPT ![j].error = exc[j]]
    /\ jpc' = [jpc EXCEPT ![j] = "except_log"]
    /\ UNCHANGED <<files, courses_per_category, categories, api_key,
                   collected_courses, kwi, cati, ckwi, category_courses,
                   playlists, filename, jimported, jskipped, exc>>
    /\ UNCHANGED <<remote_calls, dbVars, nonJobVars>>

\* collection_jobs[job_id]['logs'].append('Error: ...')
ExceptLog(j) ==
    /\ jpc[j] = "except_log"
    /\ collection_jobs' = AppendLog(collection_jobs, j, "Error", exc[j])
    /\ jpc' = [jpc EXCEPT ![j] = "done"]
    /\ UNCHANGED <<files, courses_per_category, categories, api_key,
                   collected_courses, kwi, cati, ckwi, category_courses,
                   playlists, filename, jimported, jskipped, exc>>
    /\ UNCHANGED <<remote_calls, dbVars, nonJobVars>>

----------------------------------------------------------------------------
(* The job specification: one collection job, from any request *)

\* The jobs this specification starts.
SoloJobs == {"j1"}

JobNext ==
    \/ \E j \in SoloJobs : \E cpc \in PerCategoryChoices :
         \E cats \in CategoryChoices : \E kws \in KeywordChoices :
           StartCollection(j, cpc, cats, kws)
    \/ \E j \in JobIds : CheckKey(j)
    \/ \E j \in JobIds : KeyError(j)
    \/ \E j \in JobIds : KwNext(j)
    \/ \E j \in JobIds : KwProcess(j)
    \/ \E j \in JobIds : CatNext(j)
    \/ \E j \in JobIds : CatKw(j)
    \/ \E j \in JobIds : CatProcess(j)
    \/ \E j \in JobIds : Save(j)
    \/ \E j \in JobIds : NoCoursesLog(j)
    \/ \E j \in JobIds : Import(j)
    \/ \E j \in JobIds : Cleanup(j)
    \/ \E j \in JobIds : Complete(j)
    \/ \E j \in JobIds : CompleteLog(j)
    \/ \E j \in JobIds : Except(j)
    \/ \E j \in JobIds : ExceptError(j)
    \/ \E j \in JobIds : ExceptLog(j)

InitJob == JobIdle /\ StoreInit /\ AsmIdle /\ ReqIdle /\ FunIdle

SpecJob == InitJob /\ [][JobNext]_vars

----------------------------------------------------------------------------
(* Properties of the collection jobs *)

Status(jobs, j) == jobs[j].status

\* One step of the registry: a job that appears is 'running'; a status that
\* changes was 'running' and becomes 'completed' or 'failed'.
C9_StatusStep ==
    \A j \in DOMAIN collection_jobs' :
        IF j \notin DOMAIN collection_jobs
        THEN Status(collection_jobs', j) = "running"
        ELSE Status(collection_jobs', j) /= Status(collection_jobs, j) =>
                /\ Status(collection_jobs, j) = "running"
                /\ Status(collection_jobs', j) \in {"completed", "failed"}

\* C9: a collection job's status starts as 'running'; its only transitions
\* are running -> completed and running -> failed; a status of 'completed' or
\* 'failed' never changes again (no completed -> failed, nothing -> running).
C9_StatusTransitions == [][C9_StatusStep]_vars

\* C9 witness: a job that failed on an exception after it had collected a
\* course, and whose thread then wrote the error and the log line and ended.
C9_Witness ==
    \E j \in DOMAIN collection_jobs :
        /\ jpc[j] = "done"
        /\ Status(collection_jobs, j) = "failed"
        /\ collection_jobs[j].error = "search_playlists"
        /\ collection_jobs[j].collected > 0
        /\ Len(collection_jobs[j].logs) > 2

\* C10: a job whose credential is present is never 'failed', and when its
\* thread has ended it is 'completed', whatever the remote calls did; with no
\* matching category and no keyword it ends 'completed' with collected = 0.
C10_KeyPresentEndsCompleted ==
    \A j \in DOMAIN collection_jobs :
        api_key[j] = "present" =>
            /\ Status(collection_jobs, j) /= "failed"
            /\ jpc[j] = "done" =>
                  /\ Status(collection_jobs, j) = "completed"
                  /\ (/\ collection_jobs[j].custom_keywords = <<>>
                      /\ \A i \in 1..Len(categories[j]) :
                            categories[j][i] \notin DOMAIN search_keywords)
                     => collection_jobs[j].collected = 0

\* C11: a job whose credential is absent makes no remote catalog call (client
\* construction, search, lookup) at any point, is 'failed' from the key check
\* on, and ends with a non-empty error message and no exception raised.
C11_NoKeyNoRemoteCall ==
    \A j \in DOMAIN collection_jobs :
        api_key[j] = "absent" =>
            /\ remote_calls[j] = {}
            /\ Status(collection_jobs, j) = "failed"
            /\ exc[j] = ""
            /\ jpc[j] \in {"key_error", "done"}
            /\ jpc[j] = "done" => collection_jobs[j].error \notin {"None", ""}

\* C11 witness: a job without credential whose thread has returned.
C11_Witness ==
    \E j \in DOMAIN collection_jobs :
        /\ api_key[j] = "absent"
        /\ jpc[j] = "done"
        /\ collection_jobs[j].custom_keywords /= <<>>
        /\ categories[j] /= <<>>
        /\ collection_jobs[j].error = "YouTube API key not found"

IsPrefix(s, t) == Len(s) <= Len(t) /\ SubSeq(t, 1, Len(s)) = s

C12_LogStep ==
    \A j \in DOMAIN collection_jobs :
        /\ j \in DOMAIN collection_jobs'
        /\ IsPrefix(collection_jobs[j].logs, collection_jobs'[j].logs)

\* C12: a job's log is append-only: in every step the log before is a prefix
\* of the log after; no line is removed, reordered or rewritten.
C12_LogAppendOnly == [][C12_LogStep]_vars

\* C12 witness: a finished job whose log grew to four lines or more.
C12_Witness ==
    \E j \in DOMAIN collection_jobs :
        /\ jpc[j] = "done"
        /\ Len(collection_jobs[j].logs) >= 4

----------------------------------------------------------------------------
(* A request thread of api_server.py on the shared connection, next to an  *)
(* import worker: delete_course (DELETE /api/courses/<id>) and             *)
(* DatabaseManager.get_statistics (GET /api/stats), one statement a step.  *)

\* PRAGMA foreign_keys of the connection: sqlite3.connect() leaves it at the
\* library default, off, and no statement of the program turns it on, so
\* ON DELETE CASCADE of the lessons table is not enforced.
foreign_keys == FALSE

\* The worker whose import runs next to the requests.
Importer == "w1"

\* The ids a request may name: those an import of MaxFileLen lines can
\* assign, and one more.
CourseIds == 1..(MaxFileLen + 1)

\* course = db.get_course_by_id(course_id); if not course: return 404
DeleteFetch(id) ==
    /\ qpc = "idle"
    /\ IF \E c \in courses : c.id = id
       THEN /\ course_id' = id
            /\ qpc' = "delete_row"
            /\ UNCHANGED answered404
       ELSE /\ answered404' = answered404 \cup {id}
            /\ UNCHANGED <<qpc, course_id>>
    /\ UNCHANGED <<deleted, stats, statistics>>
    /\ UNCHANGED <<dbVars, nonReqVars>>

\* db.conn.execute('DELETE FROM courses WHERE id = ?', (course_id,))
DeleteRow ==
    /\ qpc = "delete_row"
    /\ courses' = {c \in courses : c.id /= course_id}
    /\ lessons' = IF foreign_keys
                  THEN {l \in lessons : l.course_id /= course_id}
                  ELSE lessons
    /\ qpc' = "delete_commit"
    /\ UNCHANGED <<seqCourses, seqLessons, committedCourses, committedLessons>>
    /\ UNCHANGED <<course_id, deleted, answered404, stats, statistics>>
    /\ UNCHANGED nonReqVars

\* db.conn.commit(); return jsonify({'success': True, ...})
DeleteCommit ==
    /\ qpc = "delete_commit"
    /\ committedCourses' = courses
    /\ committedLessons' = lessons
    /\ deleted' = deleted \cup {course_id}
    /\ course_id' = 0
    /\ qpc' = "idle"
    /\ UNCHANGED <<courses, lessons, seqCourses, seqLessons>>
    /\ UNCHANGED <<answered404, stats, statistics>>
    /\ UNCHANGED nonReqVars

\* SELECT key, COUNT(*) FROM courses GROUP BY key, as a dict
GroupCount(rows, key) ==
    [v \in {r[key] : r \in rows} |-> Cardinality({r \in rows : r[key] = v})]

RECURSIVE SumOf(_, _)
SumOf(rows, key) ==
    IF rows = {} THEN 0
    ELSE LET r == CHOOSE x \in rows : TRUE
         IN r[key] + SumOf(rows \ {r}, key)

\* Python's round(n / 60): to the nearest integer, a half to the even one.
RoundHours(n) ==
    LET q == n \div 60
        r == n % 60
    IN IF r > 30 \/ (r = 30 /\ q % 2 = 1) THEN q + 1 ELSE q

\* SELECT COUNT(*) as total FROM courses
StatsTotal ==
    /\ qpc = "idle"
    /\ stats' = [total_courses |-> Cardinality(courses)]
    /\ qpc' = "stats_category"
    /\ UNCHANGED <<course_id, deleted, answered404, statistics>>
    /\ UNCHANGED <<dbVars, nonReqVars>>

\* SELECT category, COUNT(*) as count FROM courses GROUP BY category
StatsByCategory ==
    /\ qpc = "stats_category"
    /\ stats' = [total_courses |-> stats.total_courses,
                 by_category |-> GroupCount(courses, "category")]
    /\ qpc' = "stats_language"
    /\ UNCHANGED <<course_id, deleted, answered404, statistics>>
    /\ UNCHANGED <<dbVars, nonReqVars>>

\* SELECT language_name, COUNT(*) as count FROM courses GROUP BY language_name
StatsByLanguage ==
    /\ qpc = "stats_language"
    /\ stats' = [total_courses |-> stats.total_courses,
                 by_category |-> stats.by_category,
                 by_language |-> GroupCount(courses, "language_name")]
    /\ qpc' = "stats_lessons"
    /\ UNCHANGED <<course_id, deleted, answered404, statistics>>
    /\ UNCHANGED <<dbVars, nonReqVars>>

\* SELECT SUM(lesson_count) as total FROM courses  ... or 0
StatsLessons ==
    /\ qpc = "stats_lessons"
    /\ stats' = [total_courses |-> stats.total_courses,
                 by_category |-> stats.by_category,
                 by_language |-> stats.by_language,
                 total_lessons |-> SumOf(courses, "lesson_count")]
    /\ qpc' = "stats_duration"
    /\ UNCHANGED <<course_id, deleted, answered404, statistics>>
    /\ UNCHANGED <<dbVars, nonReqVars>>

\* SELECT SUM(duration_min) as total FROM courses; round(total / 60); return stats
StatsDuration ==
    /\ qpc = "stats_duration"
    /\ statistics' =
          [total_courses |-> stats.total_courses,
           by_category |-> stats.by_category,
           by_language |-> stats.by_language,
           total_lessons |-> stats.total_lessons,
           total_duration_hours |-> RoundHours(SumOf(courses, "duration_min"))]
    /\ stats' = <<>>
    /\ qpc' = "idle"
    /\ UNCHANGED <<course_id, deleted, answered404>>
    /\ UNCHANGED <<dbVars, nonReqVars>>

CatalogNext ==
    \/ ReadLine(Importer)
    \/ EndOfFile(Importer)
    \/ SelectExisting(Importer)
    \/ InsertCourseRow(Importer)
    \/ InsertLessonRow(Importer)
    \/ Commit(Importer)
    \/ \E id \in CourseIds : DeleteFetch(id)
    \/ DeleteRow
    \/ DeleteCommit
    \/ StatsTotal
    \/ StatsByCategory
    \/ StatsByLanguage
    \/ StatsLessons
    \/ StatsDuration

InitCatalog == StoreInit /\ AsmIdle /\ JobIdle /\ ReqIdle /\ FunIdle

SpecCatalog == InitCatalog /\ [][CatalogNext]_vars

----------------------------------------------------------------------------
(* Properties of deletion and of the statistics *)

\* C13: a deletion answered with not-found was of an id that had no row (and
\* changed nothing); after a deletion answered with success the Course row
\* of the id is gone for good (a later fetch by id finds nothing) and no
\* Lesson row of the id remains.
C13_DeleteCascades ==
    /\ \A id \in deleted :
          /\ ~ \E c \in courses : c.id = id
          /\ ~ \E l \in lessons : l.course_id = id
    /\ \A l \in committedLessons : l.course_id \notin deleted

RECURSIVE SumCounts(_)
SumCounts(f) ==
    IF DOMAIN f = {} THEN 0
    ELSE LET k == CHOOSE x \in DOMAIN f : TRUE
         IN f[k] + SumCounts([x \in DOMAIN f \ {k} |-> f[x]])

\* The import is between two records and no request is being served.
Quiescent == wpc[Importer] \in {"read", "done"} /\ qpc = "idle"

\* C14: the statistics returned have by_category and by_language both summing
\* to total_courses; and whenever no insert is in progress the number of
\* courses stored is the number of inserts that returned true minus the
\* number of deletions.
C14_StatisticsConsistent ==
    /\ statistics /= <<>> =>
          /\ SumCounts(statistics.by_category) = statistics.total_courses
          /\ SumCounts(statistics.by_language) = statistics.total_courses
    /\ Quiescent => Cardinality(courses) = imported[Importer] - Cardinality(deleted)

----------------------------------------------------------------------------
(* GET /api/courses: get_courses of src/api_server.py over                 *)
(* DatabaseManager.search_courses. The rows that match the filters are     *)
(* 1 .. matching in the order of the ORDER BY.                             *)

\* Largest number of matching rows of the store.
MaxMatching == 101

\* min(int(filters.get('limit', 20)), 100)
LimitCap == 100

\* total_filters['limit'] = 999999
TotalLimit == 999999

\* The limit and offset parameters of the requests.
Limits == {0, 1, 20, 100, 150}

Offsets == {0, 20, 45, 100, 120}

Max(a, b) == IF a > b THEN a ELSE b

\* search_courses: limit = min(int(filters['limit']), 100); the rows of
\* `... LIMIT limit OFFSET offset`, for limit >= 0 and offset >= 0.
search_courses(limit, offset) ==
    LET lim == Min(limit, LimitCap)
        n == Min(lim, Max(0, matching - offset))
    IN [i \in 1..n |-> offset + i]

\* get_courses: 'limit': min(int(args.get('limit', 20)), 100); courses =
\* db.search_courses(filters); all_results = db.search_courses(limit 999999,
\* offset 0); total = len(all_results); the pagination block. A limit of 0
\* raises ZeroDivisionError, answered with status 500.
GetCourses(limit, offset) ==
    /\ LET lim == Min(limit, LimitCap)
           data == search_courses(lim, offset)
           total == Len(search_courses(TotalLimit, 0))
       IN response' =
             IF lim = 0
             THEN [success |-> FALSE, asked |-> [limit |-> limit, offset |-> offset]]
             ELSE [success |-> TRUE, asked |-> [limit |-> limit, offset |-> offset],
                   data |-> data,
                   limit |-> lim,
                   offset |-> offset,
                   total |-> total,
                   page |-> (offset \div lim) + 1,
                   total_pages |-> (total + lim - 1) \div lim]
    /\ UNCHANGED <<matching, token, minutes, snippet, language>>
    /\ UNCHANGED nonFunVars

PaginateNext == \E limit \in Limits : \E offset \in Offsets : GetCourses(limit, offset)

InitPaginate ==
    /\ StoreInit /\ AsmIdle /\ JobIdle /\ ReqIdle
    /\ polled = <<>>
    /\ returned = {}
    /\ matching \in 0..MaxMatching
    /\ response = <<>>
    /\ token = <<>>
    /\ minutes = -1
    /\ snippet = <<>>
    /\ language = ""

SpecPaginate == InitPaginate /\ [][PaginateNext]_vars

CeilDiv(a, b) == (a + b - 1) \div b

\* C15: with M matching rows, requested limit and offset O and
\* L = min(limit, 100) (for L > 0), the response has min(L, max(0, M - O))
\* rows, total = M, total_pages = ceil(M / L) and page = floor(O / L) + 1.
C15_Pagination ==
    (response /= <<>> /\ response.asked.limit > 0) =>
        LET L == Min(response.asked.limit, 100)
            O == response.asked.offset
        IN /\ response.success
           /\ Len(response.data) = Min(L, Max(0, matching - O))
           /\ response.total = matching
           /\ response.total_pages = CeilDiv(matching, L)
           /\ response.page = (O \div L) + 1

----------------------------------------------------------------------------
(* parse_duration on its own, over every short string of an alphabet and   *)
(* the duration tokens of the remote.                                      *)

\* Longest string of the alphabet given to parse_duration.
MaxTokenLen == 5

\* The marker letters, two digits and a character that is neither.
Alphabet == {"P", "T", "H", "M", "S", "0", "1", "x"}

Strings == UNION {[1..n -> Alphabet] : n \in 0..MaxTokenLen}

Tokens == Strings \cup {DurationTokens[i] : i \in 1..Len(DurationTokens)}

\* minutes = self.parse_duration(duration)
ParseDuration ==
    /\ minutes = -1
    /\ minutes' = parse_duration(token)
    /\ UNCHANGED <<matching, response, token, snippet, language>>
    /\ UNCHANGED nonFunVars

DurationNext == ParseDuration

InitDuration ==
    /\ StoreInit /\ AsmIdle /\ JobIdle /\ ReqIdle
    /\ polled = <<>>
    /\ returned = {}
    /\ matching = 0
    /\ response = <<>>
    /\ token \in Tokens
    /\ minutes = -1
    /\ snippet = <<>>
    /\ language = ""

SpecDuration == InitDuration /\ [][DurationNext]_vars

\* The token is of the form PT[nH][nM][nS], all of it: <<>> when it is not,
\* else its hours, minutes and seconds (0 for a part that is absent).
DurationForm(s) ==
    IF Len(s) < 2 \/ s[1] /= "P" \/ s[2] /= "T"
    THEN <<>>
    ELSE LET h == OptionalGroup(s, 3, "H")
             m == OptionalGroup(s, h.next, "M")
             sec == OptionalGroup(s, m.next, "S")
         IN IF sec.next = Len(s) + 1
            THEN <<[h |-> h.value, m |-> m.value, s |-> sec.value]>>
            ELSE <<>>

\* C16: for a token PT[nH][nM][nS] with hours h, minutes m and seconds s the
\* result is h*60 + m + (1 if s > 0 else 0), which exceeds h*60 + m by at
\* most 1; for every other string the result is 0.
C16_ParseDuration ==
    minutes /= -1 =>
        LET f == DurationForm(token) IN
        IF f /= <<>>
        THEN /\ minutes = f[1].h * 60 + f[1].m + (IF f[1].s > 0 THEN 1 ELSE 0)
             /\ minutes - (f[1].h * 60 + f[1].m) \in {0, 1}
        ELSE minutes = 0

----------------------------------------------------------------------------
(* EnhancedCourseCollector.detect_language. A title or a description is    *)
(* the set of its words; a word of another script is named by its script:  *)
(* "hanzi" is a word of CJK ideographs other than the markers, "nihongo"   *)
(* the marker word of rule ja (three ideographs), "kana", "hangul",        *)
(* "cyrillic", "devanagari" and "arabic" words of those scripts.           *)

\* Largest number of words of a title.
MaxWords == 2

Words == {"Tutorial", "Course", "curso", "kurs", "cours", "corso", "belajar",
          "hanzi", "nihongo", "kana", "hangul", "python"}

\* str.lower() of a word
Lower(w) ==
    CASE w = "Tutorial" -> "tutorial"
      [] w = "Course" -> "course"
      [] OTHER -> w

\* language_patterns, in the order of the dict literal: the code of each
\* rule and the words of the vocabulary its pattern finds.
language_patterns ==
    << [code |-> "en", finds |-> {"tutorial", "course"}],
       [code |-> "es", finds |-> {"tutorial", "curso"}],
       [code |-> "zh", finds |-> {"hanzi", "nihongo"}],
       [code |-> "hi", finds |-> {"devanagari"}],
       [code |-> "ar", finds |-> {"arabic"}],
       [code |-> "pt", finds |-> {"tutorial", "curso"}],
       [code |-> "fr", finds |-> {"cours"}],
       [code |-> "de", finds |-> {"tutorial", "kurs"}],
       [code |-> "ja", finds |-> {"kana", "nihongo"}],
       [code |-> "ko", finds |-> {"hangul"}],
       [code |-> "ru", finds |-> {"cyrillic"}],
       [code |-> "it", finds |-> {"tutorial", "corso"}],
       [code |-> "tr", finds |-> {"kurs"}],
       [code |-> "id", finds |-> {"tutorial", "belajar"}],
       [code |-> "vi", finds |-> {}] >>

\* snippet.get('defaultLanguage'): "None" is an absent key, "" an empty string.
Truthy(x) == x \notin {"None", ""}

\* re.search(pattern, text, re.IGNORECASE)
Search(rule, text) == rule.finds \cap text /= {}

\* for code, pattern in language_patterns.items(): if re.search(...): return code
RECURSIVE FirstMatch(_, _, _)
FirstMatch(i, text, default_language) ==
    IF i > Len(language_patterns) THEN default_language
    ELSE IF Search(language_patterns[i], text) THEN language_patterns[i].code
    ELSE FirstMatch(i + 1, text, default_language)

\* Mutant: the loop keeps the last rule that matches.
RECURSIVE LastMatch(_, _, _)
LastMatch(i, text, default_language) ==
    IF i = 0 THEN default_language
    ELSE IF Search(language_patterns[i], text) THEN language_patterns[i].code
    ELSE LastMatch(i - 1, text, default_language)

detect_language_LastMatch(snip) ==
    LET default_language ==
            IF Truthy(snip.defaultLanguage) THEN snip.defaultLanguage
            ELSE IF Truthy(snip.defaultAudioLanguage) THEN snip.defaultAudioLanguage
            ELSE "en"
        text == {Lower(w) : w \in snip.title \cup snip.description}
    IN LastMatch(Len(language_patterns), text, default_language)

\* default_language = defaultLanguage or defaultAudioLanguage or 'en';
\* text = (title + ' ' + description).lower(); the first rule that matches.
detect_language(snip) ==
    LET default_language ==
            IF Truthy(snip.defaultLanguage) THEN snip.defaultLanguage
            ELSE IF Truthy(snip.defaultAudioLanguage) THEN snip.defaultAudioLanguage
            ELSE "en"
        text == {Lower(w) : w \in snip.title \cup snip.description}
    IN FirstMatch(1, text, default_language)

Snippets ==
    [title : {t \in SUBSET Words : Cardinality(t) <= MaxWords},
     description : {d \in SUBSET Words : Cardinality(d) <= 1},
     defaultLanguage : {"None", "", "fr"},
     defaultAudioLanguage : {"None", "ko"}]

\* The snippets of the calls that follow the first.
LaterSnippets ==
    {sn \in Snippets : /\ sn.title \in {{}, {"curso"}, {"kurs", "python"}}
                       /\ sn.description = {}
                       /\ sn.defaultLanguage = "None"}

\* language = self.detect_language(snippet), of the first snippet
DetectLanguage ==
    /\ language = ""
    /\ language' = detect_language(snippet)
    /\ UNCHANGED <<matching, response, token, minutes, snippet>>
    /\ UNCHANGED nonFunVars

\* a later call of the same collector, with another snippet
DetectLanguageAgain(snip) ==
    /\ language /= ""
    /\ snippet' = snip
    /\ language' = detect_language(snip)
    /\ UNCHANGED <<matching, response, token, minutes>>
    /\ UNCHANGED nonFunVars

LanguageNext ==
    \/ DetectLanguage
    \/ \E snip \in LaterSnippets : DetectLanguageAgain(snip)

InitLanguage ==
    /\ StoreInit /\ AsmIdle /\ JobIdle /\ ReqIdle
    /\ polled = <<>>
    /\ returned = {}
    /\ matching = 0
    /\ response = <<>>
    /\ token = <<>>
    /\ minutes = -1
    /\ snippet \in Snippets
    /\ language = ""

SpecLanguage == InitLanguage /\ [][LanguageNext]_vars

\* The rules whose pattern matches the lowercased title and description.
MatchingRules(snip) ==
    {i \in 1..Len(language_patterns) :
        \E w \in snip.title \cup snip.description :
            Lower(w) \in language_patterns[i].finds}

\* The table order of the rules
TableOrder ==
    <<"en", "es", "zh", "hi", "ar", "pt", "fr", "de", "ja", "ko", "ru", "it",
      "tr", "id", "vi">>

\* C17: the result is the code of the first rule, in the table order en, es,
\* zh, hi, ar, pt, fr, de, ja, ko, ru, it, tr, id, vi, whose pattern matches,
\* whatever later rules match; with no match it is the declared default
\* language, or 'en' when none is declared; whatever the earlier calls were.
C17_FirstRuleWins ==
    language /= "" =>
        LET rules == MatchingRules(snippet) IN
        IF rules /= {}
        THEN \E i \in rules :
                /\ \A k \in rules : i <= k
                /\ language = TableOrder[i]
        ELSE IF Truthy(snippet.defaultLanguage)
             THEN language = snippet.defaultLanguage
        ELSE IF Truthy(snippet.defaultAudioLanguage)
             THEN language = snippet.defaultAudioLanguage
        ELSE language = "en"

\* C17 witness: a call whose text matches the rules de and tr and no earlier
\* one returned 'de', though a default language was declared.
C17_Witness ==
    /\ language = "de"
    /\ language /= snippet.defaultAudioLanguage
    /\ snippet.title = {"kurs", "python"}
    /\ snippet.defaultAudioLanguage = "ko"
    /\ snippet.defaultLanguage = "None"
    /\ MatchingRules(snippet) = {8, 13}

----------------------------------------------------------------------------
(* Properties of the catalog client's failure isolation *)

\* C18: search_playlists never propagates a failure: no job's handler ever
\* catches an exception of a search, and after a search that failed the job
\* is still in its loops, going on to the next keyword.
C18_SearchNeverPropagates ==
    \A j \in DOMAIN collection_jobs :
        /\ exc[j] /= "search_playlists"
        /\ (jpc[j] = "except" => "search" \notin remote_calls[j])

\* C19: what get_playlist_videos returns is what it had accumulated: when the
\* request for a page fails after earlier pages were fetched, the items of
\* those pages in order, not an empty list.
C19_SubItemsAccumulated ==
    (apc /= "videos" /\ raisedBy /= "get_playlist_videos") =>
        playlist_videos = videos

----------------------------------------------------------------------------
(* GET /api/collect/status/<job_id> in a request thread, while the job's   *)
(* worker thread runs.                                                     *)

\* if job_id not in collection_jobs: return 404
\* return jsonify({'success': True, 'status': collection_jobs[job_id]})
\* `at` is where the job's worker stood when the record was serialized.
Poll(j) ==
    /\ polled' = IF j \in DOMAIN collection_jobs
                 THEN [success |-> TRUE, job |-> j,
                       status |-> collection_jobs[j], at |-> jpc[j]]
                 ELSE [success |-> FALSE, job |-> j]
    /\ UNCHANGED <<returned, storeVars, asmVars, jobVars, reqVars, funVars>>

PollNext ==
    \/ JobNext
    \/ \E j \in JobIds : Poll(j)

InitPoll == JobIdle /\ StoreInit /\ AsmIdle /\ ReqIdle /\ FunIdle

SpecPoll == InitPoll /\ [][PollNext]_vars

\* The positions of run_collection from which the worker still appends a
\* line to the job's log.
AppendsPending == {"complete_log", "no_courses_log", "except_error", "except_log"}

\* C20: a poll never observes status 'failed' with the error message unset,
\* nor a terminal status in a record whose log the worker has yet to append
\* to.
C20_PollSeesConsistentRecord ==
    (polled /= <<>> /\ polled.success) =>
        /\ polled.status.status = "failed" => polled.status.error /= "None"
        /\ polled.status.status \in {"completed", "failed"} =>
              polled.at \notin AppendsPending


----------------------------------------------------------------------------
(* Properties of run_collection's loops *)

\* The log lines that open the processing of a custom keyword or a category.
Headers == {"Searching", "Collecting"}

\* The number of courses accepted after the header at place h of a log and
\* before the next header.
AcceptedAfter(log, h) ==
    Cardinality({i \in (h + 1)..Len(log) :
                    /\ log[i].line = "Collected"
                    /\ \A k \in (h + 1)..i : log[k].line \notin Headers})

\* No custom keyword and no category of job j accepted more than cap courses.
AcceptedWithin(jobs, j, cap) ==
    \A h \in 1..Len(jobs[j].logs) :
        jobs[j].logs[h].line \in Headers => AcceptedAfter(jobs[j].logs, h) <= cap

\* One step of job j keeps the order of run_collection: the custom keywords
\* one by one in list order while no category was begun; the categories one
\* by one after the last custom keyword; a category's keywords one by one;
\* no search and no assembly for a category that has its courses.
OrderStep(j) ==
    /\ kwi'[j] /= kwi[j] =>
          /\ kwi'[j] = kwi[j] + 1
          /\ cati[j] = 0
          /\ collection_jobs'[j].logs[Len(collection_jobs'[j].logs)] =
                [line |-> "Searching",
                 arg |-> collection_jobs[j].custom_keywords[kwi'[j]]]
    /\ cati'[j] /= cati[j] =>
          /\ cati'[j] = cati[j] + 1
          /\ kwi[j] = Len(collection_jobs[j].custom_keywords)
    /\ ckwi'[j] /= ckwi[j] =>
          \/ ckwi'[j] = 0 /\ cati'[j] /= cati[j]
          \/ /\ ckwi'[j] = ckwi[j] + 1
             /\ cati'[j] = cati[j]
             /\ category_courses[j] < courses_per_category[j]
    /\ (jpc[j] = "cat_process" /\ jpc'[j] = "cat_process"
            /\ playlists'[j] /= playlists[j]) =>
          category_courses[j] < courses_per_category[j]
    /\ category_courses'[j] <= courses_per_category[j] \/ category_courses'[j] = 0

CandidateRaised(j) ==
    /\ jpc[j] \in {"kw_process", "cat_process"}
    /\ Len(collection_jobs'[j].logs) = Len(collection_jobs[j].logs) + 1
    /\ collection_jobs'[j].logs[Len(collection_jobs'[j].logs)].line = "Error"

\* C25: an exception of process_playlist is caught where it is called and
\* becomes a log line: the step leaves the job in its loop with the rest of
\* the candidates to process, its status and error untouched and nothing for
\* the handler of run_collection; a job that is 'failed' lacks its key or
\* caught an exception that came from elsewhere.
C25_CandidateFailureIsolated ==
    [][\A j \in DOMAIN collection_jobs :
          /\ CandidateRaised(j) =>
                /\ jpc'[j] = jpc[j]
                /\ playlists'[j] = Tail(playlists[j])
                /\ Status(collection_jobs', j) = Status(collection_jobs, j)
                /\ collection_jobs'[j].error = collection_jobs[j].error
                /\ exc'[j] = exc[j]
                /\ kwi'[j] = kwi[j] /\ cati'[j] = cati[j] /\ ckwi'[j] = ckwi[j]
          /\ Status(collection_jobs', j) = "failed" =>
                \/ api_key'[j] = "absent"
                \/ exc'[j] \in {"search_playlists", "FileNotFoundError"}
      ]_vars

\* C25 witness: a job that ended 'completed' after the candidate of a custom
\* keyword raised and the next keyword was searched, and after a candidate of
\* a category raised and the candidate after it in the same result was
\* accepted.
C25_Witness ==
    \E j \in DOMAIN collection_jobs :
        /\ jpc[j] = "done"
        /\ Status(collection_jobs, j) = "completed"
        /\ \E e, h, f, c \in 1..Len(collection_jobs[j].logs) :
              /\ e < h /\ h < f /\ f < c
              /\ collection_jobs[j].logs[e] = [line |-> "Error", arg |-> "a"]
              /\ collection_jobs[j].logs[h] = [line |-> "Searching", arg |-> "k2"]
              /\ collection_jobs[j].logs[f] = [line |-> "Error", arg |-> "a"]
              /\ collection_jobs[j].logs[c] = [line |-> "Collected", arg |-> "b"]
              /\ \A k \in f..c : collection_jobs[j].logs[k].line \notin Headers

\* C29: for a job started with courses_per_category >= 0 the collected count
\* never decreases and never exceeds the estimated total,
\* (categories + custom keywords) * courses_per_category.
C29_CollectedWithinTotal ==
    [][\A j \in DOMAIN collection_jobs :
          courses_per_category[j] >= 0 =>
              /\ collection_jobs'[j].collected >= collection_jobs[j].collected
              /\ collection_jobs'[j].collected <= collection_jobs'[j].total
              /\ collection_jobs'[j].total = collection_jobs[j].total
      ]_vars

\* C29 witness: a finished job whose collected count reached its total.
C29_Witness ==
    \E j \in DOMAIN collection_jobs :
        /\ jpc[j] = "done"
        /\ courses_per_category[j] > 0
        /\ collection_jobs[j].collected = collection_jobs[j].total
        /\ collection_jobs[j].collected >= 2


----------------------------------------------------------------------------
(* Properties of the assembler's remote calls *)

AllOk(requests) == \A i \in 1..Len(requests) : requests[i].out = "ok"

\* The pages of a playlist of n items: one page even when it is empty.
PagesOf(n) == IF n = 0 THEN 1 ELSE CeilDiv(n, PageSize)

\* C22: while every page request succeeds, get_playlist_videos asks for each
\* page once, the first without a token and each later one with the token
\* the page before it returned, holds the items of the pages fetched so far
\* in page order, stops at the first page that names no next page, and
\* returns all the items of the playlist in order.
C22_PagingComplete ==
    (page_requests /= <<>> /\ AllOk(page_requests)) =>
        /\ \A i \in 1..Len(page_requests) :
              page_requests[i].pageToken = IF i = 1 THEN 0 ELSE i
        /\ Len(page_requests) <= PagesOf(remoteCount)
        /\ videos = Range(1, Min(remoteCount, Len(page_requests) * PageSize))
        /\ apc = "videos" <=> Len(page_requests) < PagesOf(remoteCount)
        /\ apc /= "videos" => playlist_videos = Range(1, remoteCount)

\* C22 witness: a playlist of two pages, both fetched, whose 52 items were
\* returned in order and made a course.
C22_Witness ==
    /\ Accepted
    /\ AllOk(page_requests)
    /\ Len(page_requests) = 2
    /\ Len(playlist_videos) > PageSize

\* The ids sent by the calls, in call order.
RECURSIVE SentIds(_)
SentIds(calls) ==
    IF calls = <<>> THEN <<>>
    ELSE SentIds(SubSeq(calls, 1, Len(calls) - 1)) \o calls[Len(calls)].ids

\* The details the calls that succeeded returned, in call order.
RECURSIVE KeptDetails(_)
KeptDetails(calls) ==
    IF calls = <<>> THEN <<>>
    ELSE KeptDetails(SubSeq(calls, 1, Len(calls) - 1)) \o
         (IF calls[Len(calls)].out = "ok"
          THEN DetailsOf(calls[Len(calls)].ids) ELSE <<>>)

\* C23: no detail call carries more than 50 ids; the calls carry the ids in
\* source order, each id once; the result is the concatenation of the
\* results of the calls that succeeded; and once the batch loop has begun,
\* process_playlist does not end before every batch was requested, whatever
\* call failed.
C23_BatchesIsolated ==
    /\ \A i \in 1..Len(batch_calls) : Len(batch_calls[i].ids) <= 50
    /\ IsPrefix(SentIds(batch_calls), playlist_videos)
    /\ (raisedBy /= "get_video_details") => video_details = KeptDetails(batch_calls)
    /\ (batch_calls /= <<>> /\ apc \in {"channel", "returned", "raised"}) =>
          SentIds(batch_calls) = playlist_videos

\* C24: process_playlist resolves the id of a candidate of either shape: it
\* never raises on the id, the id it looks up is the candidate's, and the
\* course it returns carries that id.
C24_BothShapesResolve ==
    /\ raisedBy /= "resolve_id"
    /\ apc \notin {"idle", "start"} => playlist_id = CandidateId
    /\ Accepted => course[1].youtube_id = CandidateId


----------------------------------------------------------------------------
(* A job whose process_playlist calls are run step by step: the worker      *)
(* thread of run_collection down to the remote calls of the collector.     *)

\* The sizes of the playlists the searches of this specification find.
RunPlaylists == {4, 51}

\* course = collector.process_playlist(playlist, ...): the call begins
ProcessCall(j) ==
    /\ apc = "idle"
    /\ \/ jpc[j] = "kw_process" /\ playlists[j] /= <<>>
       \/ /\ jpc[j] = "cat_process" /\ playlists[j] /= <<>>
          /\ category_courses[j] < courses_per_category[j]
    /\ apc' = "start"
    /\ remoteCount' \in RunPlaylists
    /\ idShape' \in {"nested", "plain"}
    /\ UNCHANGED <<remoteHidden, playlist_details, videos, page_token,
                   playlist_videos, batch_start, video_details, subscribers,
                   course, raisedBy, playlist_id, page_requests, batch_calls>>
    /\ UNCHANGED nonAsmVars

\* What the call site sees of a process_playlist call that has ended.
ProcessOutcome ==
    IF apc = "raised" THEN "raise"
    ELSE IF course = <<>> THEN "none" ELSE "course"

\* the call ends: `if course: ...`, or `except Exception as e: ...`
ProcessReturn(j) ==
    /\ apc \in {"returned", "raised"}
    /\ \/ jpc[j] = "kw_process" /\ KwProcessed(j, ProcessOutcome)
                                /\ UNCHANGED category_courses
       \/ jpc[j] = "cat_process" /\ CatProcessed(j, ProcessOutcome)
    \* the locals of the call are gone
    /\ remoteCount' = 0 /\ remoteHidden' = {} /\ idShape' = "nested"
    /\ apc' = "idle" /\ playlist_details' = "unset" /\ videos' = <<>>
    /\ page_token' = 0 /\ playlist_videos' = <<>> /\ batch_start' = 0
    /\ video_details' = <<>> /\ subscribers' = 0 /\ course' = <<>>
    /\ raisedBy' = "" /\ playlist_id' = "" /\ page_requests' = <<>>
    /\ batch_calls' = <<>>
    /\ UNCHANGED <<files, courses_per_category, categories, api_key, kwi, cati,
                   ckwi, filename, jimported, jskipped, exc>>
    /\ UNCHANGED <<dbVars, storeThreadVars, reqVars, pollVars, funVars>>

\* The candidate loops when they end: no candidate is left, or the category
\* has its courses.
KwLoopOver(j) == playlists[j] = <<>> /\ KwProcess(j)

CatLoopOver(j) ==
    /\ playlists[j] = <<>> \/ category_courses[j] >= courses_per_category[j]
    /\ CatProcess(j)

\* The steps of the worker thread of job j.
RunWorker(j) ==
    \/ CheckKey(j) \/ KeyError(j)
    \/ KwNext(j) \/ KwLoopOver(j)
    \/ CatNext(j) \/ CatKw(j) \/ CatLoopOver(j)
    \/ ProcessCall(j) \/ ProcessReturn(j)
    \/ ResolveId \/ GetPlaylistDetails \/ FetchPage \/ FetchBatch
    \/ GetChannelDetails
    \/ Save(j) \/ NoCoursesLog(j) \/ Import(j) \/ Cleanup(j)
    \/ Complete(j) \/ CompleteLog(j)
    \/ Except(j) \/ ExceptError(j) \/ ExceptLog(j)

\* The requests this specification posts: with and without a custom keyword,
\* with and without categories (one unknown, one of search_keywords), for
\* one course or none.
RunCategoryChoices == {<<>>, <<"Other", "AI/ML">>}

RunKeywordChoices == {<<>>, <<"k1">>}

RunPerCategoryChoices == {0 - 1, 0, 1}

RunNext ==
    \/ \E j \in SoloJobs : \E cpc \in RunPerCategoryChoices :
         \E cats \in RunCategoryChoices : \E kws \in RunKeywordChoices :
           StartCollection(j, cpc, cats, kws)
    \/ \E j \in SoloJobs : CheckKey(j)
    \/ \E j \in SoloJobs : KeyError(j)
    \/ \E j \in SoloJobs : KwNext(j)
    \/ \E j \in SoloJobs : KwLoopOver(j)
    \/ \E j \in SoloJobs : CatNext(j)
    \/ \E j \in SoloJobs : CatKw(j)
    \/ \E j \in SoloJobs : CatLoopOver(j)
    \/ \E j \in SoloJobs : ProcessCall(j)
    \/ \E j \in SoloJobs : ProcessReturn(j)
    \/ ResolveId
    \/ GetPlaylistDetails
    \/ FetchPage
    \/ FetchBatch
    \/ GetChannelDetails
    \/ \E j \in SoloJobs : Save(j)
    \/ \E j \in SoloJobs : NoCoursesLog(j)
    \/ \E j \in SoloJobs : Import(j)
    \/ \E j \in SoloJobs : Cleanup(j)
    \/ \E j \in SoloJobs : Complete(j)
    \/ \E j \in SoloJobs : CompleteLog(j)
    \/ \E j \in SoloJobs : Except(j)
    \/ \E j \in SoloJobs : ExceptError(j)
    \/ \E j \in SoloJobs : ExceptLog(j)

InitRun == JobIdle /\ StoreInit /\ AsmIdle /\ ReqIdle /\ FunIdle

\* The thread of a started job is scheduled again and again, and each remote
\* call it makes returns or raises (a call is one step).
SpecRun ==
    InitRun /\ [][RunNext]_vars /\ \A j \in SoloJobs : WF_vars(RunWorker(j))

----------------------------------------------------------------------------
(* Two collection jobs at once: each request has its own worker thread, and *)
(* the threads share the directory data/ and the store.                     *)

\* The requests of this specification: one custom keyword, no category, one
\* or two courses per keyword.
StagingPerCategoryChoices == {1, 2}

\* filename = f'courses_{datetime.now().strftime("%Y-%m-%d_%H%M%S")}.jsonl':
\* the name is the second the worker reaches the line in, so Save draws it
\* from FileNames for each job, and two jobs may draw the same.
StagingNext ==
    \/ \E j \in JobIds : \E cpc \in StagingPerCategoryChoices :
           StartCollection(j, cpc, <<>>, <<"k1">>)
    \/ \E j \in JobIds : CheckKey(j)
    \/ \E j \in JobIds : KeyError(j)
    \/ \E j \in JobIds : KwNext(j)
    \/ \E j \in JobIds : KwProcess(j)
    \/ \E j \in JobIds : CatNext(j)
    \/ \E j \in JobIds : Save(j)
    \/ \E j \in JobIds : NoCoursesLog(j)
    \/ \E j \in JobIds : Import(j)
    \/ \E j \in JobIds : Cleanup(j)
    \/ \E j \in JobIds : Complete(j)
    \/ \E j \in JobIds : CompleteLog(j)
    \/ \E j \in JobIds : Except(j)
    \/ \E j \in JobIds : ExceptError(j)
    \/ \E j \in JobIds : ExceptLog(j)

InitStaging == JobIdle /\ StoreInit /\ AsmIdle /\ ReqIdle /\ FunIdle

SpecStaging == InitStaging /\ [][StagingNext]_vars

\* The positions of run_collection after import_from_jsonl returned.
AfterImport == {"cleanup", "complete", "complete_log"}

\* C27: a job that collected a course hands each of its courses to insert
\* once, through its own staging file: the file it is about to import holds
\* the courses it collected, the import never finds the file gone, and after
\* the import imported + skipped is the number of courses it collected; also
\* with another job running.
C27_OwnStagingArtifact ==
    \A j \in DOMAIN collection_jobs :
        /\ jpc[j] = "import" => files[filename[j]] = collected_courses[j]
        /\ exc[j] /= "FileNotFoundError"
        /\ (\/ jpc[j] \in AfterImport
            \/ jpc[j] = "done" /\ filename[j] /= "") =>
              jimported[j] + jskipped[j] = Len(collected_courses[j])


----------------------------------------------------------------------------
(* The registry of jobs: start_collection registers a record, starts the    *)
(* worker and answers with the id; get_collection_status looks the id up.  *)

\* return jsonify({'success': True, 'job_id': job_id, ...}): the request
\* thread of start_collection answers, the worker being started already.
ReturnJobId(j) ==
    /\ jpc[j] /= "idle"
    /\ j \notin returned
    /\ returned' = returned \cup {j}
    /\ UNCHANGED <<polled, storeVars, asmVars, jobVars, reqVars, funVars>>

\* The requests of this specification ask for no keyword and no category:
\* the worker checks the key, finds nothing to collect and ends.
RegistryNext ==
    \/ \E j \in JobIds : \E cpc \in {0, 5} : StartCollection(j, cpc, <<>>, <<>>)
    \/ \E j \in JobIds : ReturnJobId(j)
    \/ \E j \in JobIds : CheckKey(j)
    \/ \E j \in JobIds : KeyError(j)
    \/ \E j \in JobIds : CatNext(j)
    \/ \E j \in JobIds : Save(j)
    \/ \E j \in JobIds : NoCoursesLog(j)
    \/ \E j \in JobIds : Poll(j)

InitRegistry == JobIdle /\ StoreInit /\ AsmIdle /\ ReqIdle /\ FunIdle

SpecRegistry == InitRegistry /\ [][RegistryNext]_vars

\* C28: a poll answers not-found exactly for the ids no start registered: a
\* record is registered before its worker runs and before its id is
\* returned, the worker writes to a registered record only, and no record is
\* ever removed, so an id that start returned is found by every later poll.
C28_RegisteredBeforeReturned ==
    [][/\ DOMAIN collection_jobs \subseteq DOMAIN collection_jobs'
       /\ returned' \subseteq DOMAIN collection_jobs'
       /\ \A j \in JobIds :
             /\ jpc'[j] /= "idle" => j \in DOMAIN collection_jobs'
             /\ jpc'[j] = "idle" => j \notin DOMAIN collection_jobs'
       /\ polled' /= polled =>
             /\ polled'.success <=> polled'.job \in DOMAIN collection_jobs
             /\ polled'.job \in returned => polled'.success
      ]_vars

\* C28 witness: the last poll found a job whose id was returned and whose
\* worker has ended, while the other id was never issued.
C28_Witness ==
    /\ polled /= <<>>
    /\ polled.success
    /\ polled.job \in returned
    /\ jpc[polled.job] = "done"
    /\ \E j \in JobIds : j \notin DOMAIN collection_jobs


----------------------------------------------------------------------------
(* Properties of the store's counts *)

\* The sum of the `imported` the import_from_jsonl calls of W returned.
RECURSIVE SumImported(_)
SumImported(W) ==
    IF W = {} THEN 0
    ELSE LET w == CHOOSE x \in W : TRUE IN imported[w] + SumImported(W \ {w})

\* The records whose insert_course returned True, by the line outcomes.
ImportedIds ==
    {o.youtube_id : o \in
        {x \in UNION {{wres[w][i] : i \in 1..Len(wres[w])} : w \in Workers} :
            x.res = "imported"}}

\* C30: when the imports have returned, the committed Course rows are as
\* many as the calls counted as imported, and a record counted as skipped
\* (a duplicate, or one whose insert raised) has left no Course row and no
\* Lesson row in the store.
C30_SkippedLeavesNoRow ==
    (\A w \in Workers : wpc[w] = "done") =>
        /\ Cardinality(committedCourses) = SumImported(Workers)
        /\ \A c \in committedCourses : c.youtube_id \in ImportedIds
        /\ \A l \in committedLessons :
              \E c \in committedCourses :
                  c.id = l.course_id /\ c.youtube_id \in ImportedIds

====
